---------------------------- MODULE Spec2Model ----------------------------
(***************************************************************************)
(* A model of the snippet-statistics pipelines of python-code-analysis:    *)
(* parsing_utils.py (normalisation, tree building, persistence),           *)
(* metadata_parser.py (structural counter), functions_parser.py (builtin   *)
(* counter) and std_library_parser.py (import resolution and library       *)
(* usage counter), with the worker pool and the aggregation of main().     *)
(*                                                                         *)
(* Text is a sequence of one-character strings, so that replace, search,   *)
(* splitlines, len and the regular expressions act as they do in Python.   *)
(***************************************************************************)
EXTENDS Integers, Sequences, FiniteSets, TLC

(***************************************************************************)
(* Characters and text primitives (Python str operations).                 *)
(***************************************************************************)
Lower == {"a","b","c","d","e","f","g","h","i","j","k","l","m",
          "n","o","p","q","r","s","t","u","v","w","x","y","z"}

Upper == {"A","B","C","D","E","F","G","H","I","J","K","L","M",
          "N","O","P","Q","R","S","T","U","V","W","X","Y","Z"}

Digit == {"0","1","2","3","4","5","6","7","8","9"}

\* \w of the re module, on the characters the model uses
WordChar == Lower \cup Upper \cup Digit \cup {"_"}

Max2(a, b) == IF a >= b THEN a ELSE b

MinOf(S) == CHOOSE x \in S : \A y \in S : x <= y

MaxOf(S) == CHOOSE x \in S : \A y \in S : x >= y

\* the first index >= i of text whose character is not in set
RunEnd(text, i, set) ==
    MinOf({j \in i..(Len(text) + 1) : j > Len(text) \/ text[j] \notin set})

\* text[i:] starts with pat (i is 1-based)
StartsWithAt(text, i, pat) ==
    /\ i >= 1
    /\ i + Len(pat) - 1 <= Len(text)
    /\ \A k \in 1..Len(pat) : text[i + k - 1] = pat[k]

\* pat in text
Contains(text, pat) == \E i \in 1..(Len(text) + 1) : StartsWithAt(text, i, pat)

\* text.find(pat, i): the first index >= i where pat occurs, Len(text) + 1 when none
FindFrom(text, i, pat) ==
    MinOf({j \in i..Len(text) : StartsWithAt(text, j, pat)} \cup {Len(text) + 1})

RECURSIVE ReplaceFrom(_, _, _, _)
ReplaceFrom(text, i, old, new) ==
    LET j == FindFrom(text, i, old)
    IN  IF j > Len(text) THEN SubSeq(text, i, Len(text))
        ELSE SubSeq(text, i, j - 1) \o new \o ReplaceFrom(text, j + Len(old), old, new)

\* str.replace(old, new) for a non-empty old: every non-overlapping occurrence,
\* scanning from the left
Replace(text, old, new) == ReplaceFrom(text, 1, old, new)

\* the line boundaries of str.splitlines that the model's texts can hold
LineBreak == {"\n", "\r"}

\* the line breaks of text in order: a "\r\n" pair is one break, of length 2
BreakLen(text, i) == IF text[i] = "\r" /\ i < Len(text) /\ text[i + 1] = "\n" THEN 2 ELSE 1

BreakStarts(text) ==
    {i \in 1..Len(text) : text[i] \in LineBreak /\ ~(text[i] = "\n" /\ i > 1 /\ text[i - 1] = "\r")}

\* str.splitlines(): no empty last line after a final line break
SplitLines(text) ==
    LET B == BreakStarts(text)
        n == Cardinality(B)
        brk(k) == CHOOSE b \in B : Cardinality({c \in B : c < b}) = k - 1
        start(k) == IF k = 1 THEN 1 ELSE brk(k - 1) + BreakLen(text, brk(k - 1))
        last == start(n + 1)
    IN  [k \in 1..n |-> SubSeq(text, start(k), brk(k) - 1)]
            \o (IF last <= Len(text) THEN <<SubSeq(text, last, Len(text))>> ELSE <<>>)

RECURSIVE Join(_, _)
Join(lines, sep) ==
    IF lines = <<>> THEN <<>>
    ELSE IF Len(lines) = 1 THEN lines[1]
    ELSE lines[1] \o sep \o Join(Tail(lines), sep)

\* the first index >= i of text that holds a line break, Len(text) + 1 when none
SkipToEol(text, i) ==
    MinOf({j \in i..(Len(text) + 1) : j > Len(text) \/ text[j] \in LineBreak})

\* the concatenation of a sequence of sequences
RECURSIVE Flatten(_)
Flatten(seqs) == IF seqs = <<>> THEN <<>> ELSE seqs[1] \o Flatten(Tail(seqs))

(***************************************************************************)
(* parsing_utils.py: the Snippet Normalizer.                               *)
(***************************************************************************)
\* {40} of the header pattern [a-z0-9]{40},\d+,"
IdLen == 40

\* the length of the run of digits of text that starts at j (the greedy \d+)
DigitsRun(text, j) == RunEnd(text, j, Digit) - j

\* re: [a-z0-9]{40},\d+," matched at i; the index of its last character, or 0
HeaderEndAt(text, i) ==
    IF /\ i + IdLen <= Len(text)
       /\ \A k \in 0..(IdLen - 1) : text[i + k] \in (Lower \cup Digit)
       /\ text[i + IdLen] = ","
    THEN LET n == DigitsRun(text, i + IdLen + 1)
             e == i + IdLen + n + 2
         IN  IF n >= 1 /\ e <= Len(text) /\ text[e - 1] = "," /\ text[e] = "\""
             THEN e ELSE 0
    ELSE 0

\* re.search(r'[a-z0-9]{40},\d+,"', code_chunk).group(): the leftmost match, or <<>>
\* for None (a match is never empty)
HeaderSearch(code_chunk) ==
    LET hits == {i \in 1..Len(code_chunk) : HeaderEndAt(code_chunk, i) > 0}
    IN  IF hits = {} THEN <<>>
        ELSE LET i == CHOOSE h \in hits : \A g \in hits : h <= g
             IN  SubSeq(code_chunk, i, HeaderEndAt(code_chunk, i))

\* extract_code: (code, id_and_size), ('', '') when the header is absent
extract_code(code_chunk) ==
    LET id_and_size == HeaderSearch(code_chunk)
    IN  IF id_and_size = <<>>
        THEN [code |-> <<>>, id_and_size |-> <<>>]
        ELSE [code |-> Replace(code_chunk, id_and_size, <<>>), id_and_size |-> id_and_size]

\* id_and_size.split(',')[0]
UpToComma(s) == SubSeq(s, 1, FindFrom(s, 1, <<",">>) - 1)

ConflictStart == <<"<","<","<","<","<","<","<">>

ConflictMiddle == <<"=","=","=","=","=","=","=">>

ConflictEnd == <<">",">",">",">",">",">",">">>

RECURSIVE ConflictScan(_, _, _)
\* the loop of remove_merge_conflicts over code_lines[i..], in_conflict as it stands
ConflictScan(code_lines, i, in_conflict) ==
    IF i > Len(code_lines) THEN <<>>
    ELSE LET line == code_lines[i]
         IN  IF StartsWithAt(line, 1, ConflictStart)
             THEN ConflictScan(code_lines, i + 1, TRUE)
             ELSE IF StartsWithAt(line, 1, ConflictMiddle)
             THEN ConflictScan(code_lines, i + 1, FALSE)
             ELSE IF StartsWithAt(line, 1, ConflictEnd)
             THEN ConflictScan(code_lines, i + 1, in_conflict)
             ELSE IF ~in_conflict
             THEN <<line>> \o ConflictScan(code_lines, i + 1, in_conflict)
             ELSE ConflictScan(code_lines, i + 1, in_conflict)

\* remove_merge_conflicts that drops the marker lines and keeps every other line
remove_merge_conflicts_MarkersOnly(code) ==
    Join(SelectSeq(SplitLines(code),
                   LAMBDA line : /\ ~StartsWithAt(line, 1, ConflictStart)
                                 /\ ~StartsWithAt(line, 1, ConflictMiddle)
                                 /\ ~StartsWithAt(line, 1, ConflictEnd)),
         <<"\n">>)

remove_merge_conflicts(code) == Join(ConflictScan(SplitLines(code), 1, FALSE), <<"\n">>)

\* the identifiers cleanup_extracted_code omits
OmittedId1 ==
    <<"d","8","5","6","2","6","9","6","4","c","4","9","9","1","f","6","3","f","8","4","1","a","f",
    "e","6","a","2","8","5","6","4","5","5","9","f","8","c","4","e","5">>

OmittedId2 ==
    <<"1","8","d","8","b","8","0","f","6","f","1","e","1","d","4","9","7","d","2","3","5","6","f",
    "1","0","1","8","7","5","6","a","0","f","6","8","8","8","3","2","0">>

OmittedId3 ==
    <<"5","4","e","8","c","1","9","5","2","3","2","3","6","8","6","e","1","7","7","9","c","2","1",
    "f","c","b","f","d","4","c","8","5","7","a","d","d","8","5","7","e">>

OmittedId4 ==
    <<"3","b","d","b","2","7","7","7","7","1","a","4","c","7","e","d","5","5","3","8","5","8","4",
    "6","b","c","1","3","3","b","0","7","6","8","a","1","7","b","b","a">>

OmittedId5 ==
    <<"2","1","b","2","9","6","c","d","e","5","1","a","9","f","8","d","6","6","6","7","f","6","f",
    "d","5","a","8","1","e","9","1","2","5","a","5","9","3","1","6","e">>

OmittedId6 ==
    <<"6","3","9","a","c","d","3","4","b","2","a","e","7","c","f","9","d","b","f","9","3","c","b",
    "6","c","9","a","2","2","5","5","2","d","4","2","0","2","a","3","7">>

OmittedId7 ==
    <<"0","5","1","a","0","3","a","3","9","1","f","8","1","f","5","e","b","0","f","e","3","d","f",
    "c","1","f","7","d","3","9","c","a","9","6","a","4","9","9","f","6">>

OmittedId8 ==
    <<"c","9","a","5","a","8","e","f","5","6","8","b","6","c","8","6","7","f","1","e","8","4","d",
    "8","4","f","c","c","1","a","6","4","6","3","a","7","7","6","3","7">>

OmittedIds == {OmittedId1, OmittedId2, OmittedId3, OmittedId4, OmittedId5, OmittedId6, OmittedId7, OmittedId8}

CellTypeCode == <<"\"","c","e","l","l","_","t","y","p","e","\"",":"," ","\"","c","o","d","e","\"">>

CellTypeMarkdown ==
    <<"\"","c","e","l","l","_","t","y","p","e","\"",":"," ","\"","m","a","r","k","d","o","w","n",
    "\"">>

\* cleanup_extracted_code without the test of the identifier
cleanup_extracted_code_NoBlocklist(extracted_code, chunk_id) ==
    remove_merge_conflicts(Replace(extracted_code, <<"\"","\"">>, <<"\"">>))

cleanup_extracted_code(extracted_code, chunk_id) ==
    IF chunk_id \in OmittedIds THEN <<>>
    ELSE remove_merge_conflicts(Replace(extracted_code, <<"\"","\"">>, <<"\"">>))

is_ipynb(code) == Contains(code, CellTypeCode) \/ Contains(code, CellTypeMarkdown)

(***************************************************************************)
(* Syntax trees, as the ast module builds them.  A value held by a field   *)
(* is a node (with its _fields, in order), a list, a string, an int or     *)
(* None.                                                                   *)
(***************************************************************************)
NoneV == [t |-> "none"]

StrV(s) == [t |-> "str", sval |-> s]

IntV(n) == [t |-> "int", ival |-> n]

ListV(items) == [t |-> "list", items |-> items]

Fld(name, val) == [name |-> name, val |-> val]

Node(kind, fields) == [t |-> "ast", kind |-> kind, fields |-> fields]

Load == Node("Load", <<>>)

Store == Node("Store", <<>>)

Module(body) == Node("Module", <<Fld("body", ListV(body)), Fld("type_ignores", ListV(<<>>))>>)

Expr(value) == Node("Expr", <<Fld("value", value)>>)

Assign(targets, value) ==
    Node("Assign", <<Fld("targets", ListV(targets)), Fld("value", value),
                     Fld("type_comment", NoneV)>>)

Call(func, args, keywords) ==
    Node("Call", <<Fld("func", func), Fld("args", ListV(args)),
                   Fld("keywords", ListV(keywords))>>)

Attribute(value, attr, ctx) ==
    Node("Attribute", <<Fld("value", value), Fld("attr", StrV(attr)), Fld("ctx", ctx)>>)

Name(id, ctx) == Node("Name", <<Fld("id", StrV(id)), Fld("ctx", ctx)>>)

BinOp(left, op, right) ==
    Node("BinOp", <<Fld("left", left), Fld("op", Node(op, <<>>)), Fld("right", right)>>)

Constant(value) == Node("Constant", <<Fld("value", value), Fld("kind", NoneV)>>)

Keyword(arg, value) == Node("keyword", <<Fld("arg", StrV(arg)), Fld("value", value)>>)

Alias(name, asname) == Node("alias", <<Fld("name", StrV(name)), Fld("asname", asname)>>)

Import(names) == Node("Import", <<Fld("names", ListV(names))>>)

ImportFrom(module, names) ==
    Node("ImportFrom", <<Fld("module", StrV(module)), Fld("names", ListV(names)),
                         Fld("level", IntV(0))>>)

If(test, body) ==
    Node("If", <<Fld("test", test), Fld("body", ListV(body)), Fld("orelse", ListV(<<>>))>>)

Arguments ==
    Node("arguments", <<Fld("posonlyargs", ListV(<<>>)), Fld("args", ListV(<<>>)),
                        Fld("vararg", NoneV), Fld("kwonlyargs", ListV(<<>>)),
                        Fld("kw_defaults", ListV(<<>>)), Fld("kwarg", NoneV),
                        Fld("defaults", ListV(<<>>))>>)

FunctionDef(name, body) ==
    Node("FunctionDef", <<Fld("name", StrV(name)), Fld("args", Arguments),
                          Fld("body", ListV(body)), Fld("decorator_list", ListV(<<>>)),
                          Fld("returns", NoneV), Fld("type_comment", NoneV)>>)

\* ast.parse(''): the tree of the empty document
EmptyTree == Module(<<>>)

\* getattr(node, name) of a node that has the field
FieldOf(node, name) ==
    LET i == CHOOSE k \in 1..Len(node.fields) : node.fields[k].name = name
    IN  node.fields[i].val

\* the same node with its ctx field set to Store (an assignment target)
AsStore(node) ==
    [node EXCEPT !.fields = [k \in 1..Len(node.fields) |->
        IF node.fields[k].name = "ctx" THEN Fld("ctx", Store) ELSE node.fields[k]]]

(***************************************************************************)
(* ast.parse on the subset of Python the model's snippets are written in:  *)
(* import and from-import statements, assignments, expression statements   *)
(* (names, numbers, strings, attribute access, calls, sums, differences    *)
(* and products), if and def blocks, comments.  Anything else is a         *)
(* SyntaxError.                                                            *)
(***************************************************************************)
\* keyword.kwlist
Keywords == {
    <<"F","a","l","s","e">>,
    <<"N","o","n","e">>,
    <<"T","r","u","e">>,
    <<"a","n","d">>,
    <<"a","s">>,
    <<"a","s","s","e","r","t">>,
    <<"a","s","y","n","c">>,
    <<"a","w","a","i","t">>,
    <<"b","r","e","a","k">>,
    <<"c","l","a","s","s">>,
    <<"c","o","n","t","i","n","u","e">>,
    <<"d","e","f">>,
    <<"d","e","l">>,
    <<"e","l","i","f">>,
    <<"e","l","s","e">>,
    <<"e","x","c","e","p","t">>,
    <<"f","i","n","a","l","l","y">>,
    <<"f","o","r">>,
    <<"f","r","o","m">>,
    <<"g","l","o","b","a","l">>,
    <<"i","f">>,
    <<"i","m","p","o","r","t">>,
    <<"i","n">>,
    <<"i","s">>,
    <<"l","a","m","b","d","a">>,
    <<"n","o","n","l","o","c","a","l">>,
    <<"n","o","t">>,
    <<"o","r">>,
    <<"p","a","s","s">>,
    <<"r","a","i","s","e">>,
    <<"r","e","t","u","r","n">>,
    <<"t","r","y">>,
    <<"w","h","i","l","e">>,
    <<"w","i","t","h">>,
    <<"y","i","e","l","d">>
}

Tok(k, s) == [k |-> k, s |-> s]

OpChars == {"=", "+", "-", "*", ".", ",", ";", ":"}

\* the index of the quote q closing a string literal whose content starts at i, 0
\* when the line ends first; a quote after an odd run of backslashes is escaped
StringEnd(text, i, q) ==
    LET eol == SkipToEol(text, i)
        escaped(e) == (e - 1 - MaxOf({j \in (i - 1)..(e - 1) : j = i - 1 \/ text[j] # "\\"})) % 2 = 1
        ends == {e \in i..(eol - 1) : text[e] = q /\ ~escaped(e)}
    IN  IF ends = {} THEN 0 ELSE MinOf(ends)

\* the token of text that starts at or after i: tok (kind "end" at the end of the
\* text), and the index, parenthesis depth and beginning-of-line flag after it.  A
\* lexical error is a "bad" token.
NextToken(text, i, depth, bol) ==
    LET sp == RunEnd(text, i, {" "})
        j == IF sp <= Len(text) /\ text[sp] = "#" THEN SkipToEol(text, sp) ELSE sp
        c == text[j]
        out(k, s, nxt, d, b) == [tok |-> Tok(k, s), i |-> nxt, depth |-> d, bol |-> b]
    IN  IF j > Len(text) THEN out(IF depth > 0 THEN "bad" ELSE "end", <<>>, j, depth, bol)
        ELSE IF c \in LineBreak
        THEN out(IF bol \/ depth > 0 THEN "skip" ELSE "nl", <<>>, j + 1, depth, depth = 0)
        ELSE IF bol THEN out("indent", SubSeq(text, i, sp - 1), j, depth, FALSE)
        ELSE IF c \in (Lower \cup Upper \cup {"_"})
        THEN LET e == RunEnd(text, j, WordChar)
                 w == SubSeq(text, j, e - 1)
             IN  out(IF w \in Keywords THEN "kw" ELSE "name", w, e, depth, FALSE)
        ELSE IF c \in Digit
        THEN LET e == RunEnd(text, j, Digit)
             IN  IF e <= Len(text) /\ text[e] \in WordChar THEN out("bad", <<>>, e, depth, FALSE)
                 ELSE out("num", SubSeq(text, j, e - 1), e, depth, FALSE)
        ELSE IF c \in {"\"", "'"}
        THEN LET e == StringEnd(text, j + 1, c)
             IN  IF e = 0 THEN out("bad", <<>>, j, depth, FALSE)
                 ELSE out("str", SubSeq(text, j + 1, e - 1), e + 1, depth, FALSE)
        ELSE IF c = "(" THEN out("op", <<c>>, j + 1, depth + 1, FALSE)
        ELSE IF c = ")"
        THEN IF depth = 0 THEN out("bad", <<>>, j, depth, FALSE)
             ELSE out("op", <<c>>, j + 1, depth - 1, FALSE)
        ELSE IF c \in OpChars THEN out("op", <<c>>, j + 1, depth, FALSE)
        ELSE out("bad", <<>>, j, depth, FALSE)

\* one step of the tokenizer loop: st holds the tokens so far, the position and (in
\* tok) the kind of the last token; after "end" or "bad" nothing changes
TokenAdd(st, n) ==
    [toks |-> IF n.tok.k \in {"end", "skip"} THEN st.toks ELSE Append(st.toks, n.tok),
     i |-> n.i, depth |-> n.depth, bol |-> n.bol, last |-> n.tok.k]

TokenStep(text, st) ==
    IF st.last \in {"end", "bad"} THEN st
    ELSE TokenAdd(st, NextToken(text, st.i, st.depth, st.bol))

TokenStep4(text, st) == TokenStep(text, TokenStep(text, TokenStep(text, TokenStep(text, st))))

RECURSIVE TokenLoop(_, _)
TokenLoop(text, st) ==
    IF st.last \in {"end", "bad"} THEN st.toks
    ELSE TokenLoop(text, TokenStep4(text, TokenStep4(text, st)))

\* the tokens of text: a blank or comment line and a line break inside parentheses
\* give no token, and a "bad" token ends the sequence
Tokenize(text) ==
    TokenLoop(text, [toks |-> <<>>, i |-> 1, depth |-> 0, bol |-> TRUE, last |-> "start"])

DigitValue(c) ==
    CASE c = "0" -> 0 [] c = "1" -> 1 [] c = "2" -> 2 [] c = "3" -> 3 [] c = "4" -> 4
      [] c = "5" -> 5 [] c = "6" -> 6 [] c = "7" -> 7 [] c = "8" -> 8 [] c = "9" -> 9

RECURSIVE DecimalValue(_)
DecimalValue(s) ==
    IF s = <<>> THEN 0 ELSE 10 * DecimalValue(SubSeq(s, 1, Len(s) - 1)) + DigitValue(s[Len(s)])

PFail == [ok |-> FALSE, node |-> NoneV, pos |-> 0]

POk(n, p) == [ok |-> TRUE, node |-> n, pos |-> p]

LFail == [ok |-> FALSE, stmts |-> <<>>, pos |-> 0]

LOk(stmts, p) == [ok |-> TRUE, stmts |-> stmts, pos |-> p]

IsKind(toks, i, k) == i <= Len(toks) /\ toks[i].k = k

IsOp(toks, i, c) == IsKind(toks, i, "op") /\ toks[i].s = <<c>>

IsKw(toks, i, w) == IsKind(toks, i, "kw") /\ toks[i].s = w

AtEol(toks, i) == i > Len(toks) \/ toks[i].k = "nl"

RECURSIVE ParseExpr(_, _), ParseSumLoop(_, _, _, _), ParseProductLoop(_, _, _)
RECURSIVE ParseTrailers(_, _, _), ParseArgs(_, _, _, _, _), ParseAtom(_, _)

\* a parenthesised expression, r being the parse of what follows the parenthesis
CloseParen(toks, r) ==
    IF r.ok /\ IsOp(toks, r.pos, ")") THEN POk(r.node, r.pos + 1) ELSE PFail

ParseAtom(toks, i) ==
    IF IsKind(toks, i, "name") THEN POk(Name(toks[i].s, Load), i + 1)
    ELSE IF IsKind(toks, i, "num") THEN POk(Constant(IntV(DecimalValue(toks[i].s))), i + 1)
    ELSE IF IsKind(toks, i, "str") THEN POk(Constant(StrV(toks[i].s)), i + 1)
    ELSE IF IsOp(toks, i, "(") THEN CloseParen(toks, ParseExpr(toks, i + 1))
    ELSE PFail

\* the argument parsed as r joins args or, after NAME '=', kws; a comma or the
\* closing parenthesis follows
ArgThen(toks, i, func, args, kws, iskw, r) ==
    IF ~r.ok \/ (~iskw /\ kws # <<>>) THEN PFail
    ELSE IF ~(IsOp(toks, r.pos, ",") \/ IsOp(toks, r.pos, ")")) THEN PFail
    ELSE ParseArgs(toks, IF IsOp(toks, r.pos, ",") THEN r.pos + 1 ELSE r.pos, func,
                   IF iskw THEN args ELSE Append(args, r.node),
                   IF iskw THEN Append(kws, Keyword(toks[i].s, r.node)) ELSE kws)

ArgOf(toks, i, func, args, kws, iskw) ==
    ArgThen(toks, i, func, args, kws, iskw, ParseExpr(toks, IF iskw THEN i + 2 ELSE i))

ParseArgs(toks, i, func, args, kws) ==
    IF IsOp(toks, i, ")") THEN ParseTrailers(toks, i + 1, Call(func, args, kws))
    ELSE ArgOf(toks, i, func, args, kws, IsKind(toks, i, "name") /\ IsOp(toks, i + 1, "="))

ParseTrailers(toks, i, left) ==
    IF IsOp(toks, i, ".")
    THEN IF IsKind(toks, i + 1, "name")
         THEN ParseTrailers(toks, i + 2, Attribute(left, toks[i + 1].s, Load))
         ELSE PFail
    ELSE IF IsOp(toks, i, "(") THEN ParseArgs(toks, i + 1, left, <<>>, <<>>)
    ELSE POk(left, i)

TrailersOf(toks, a) == IF a.ok THEN ParseTrailers(toks, a.pos, a.node) ELSE PFail

ParsePostfix(toks, i) == TrailersOf(toks, ParseAtom(toks, i))

\* left '*' r, left being None for the first factor
ProductStep(toks, left, r) ==
    IF ~r.ok THEN PFail
    ELSE IF IsOp(toks, r.pos, "*")
    THEN ParseProductLoop(toks, r.pos + 1,
                          IF left = NoneV THEN r.node ELSE BinOp(left, "Mult", r.node))
    ELSE POk(IF left = NoneV THEN r.node ELSE BinOp(left, "Mult", r.node), r.pos)

ParseProductLoop(toks, i, left) == ProductStep(toks, left, ParsePostfix(toks, i))

ParseProduct(toks, i) == ParseProductLoop(toks, i, NoneV)

SumOp(toks, i) == IF IsOp(toks, i, "+") THEN "Add" ELSE "Sub"

\* left op r, left being None for the first term
SumStep(toks, left, op, r) ==
    IF ~r.ok THEN PFail
    ELSE IF IsOp(toks, r.pos, "+") \/ IsOp(toks, r.pos, "-")
    THEN ParseSumLoop(toks, r.pos + 1,
                      IF left = NoneV THEN r.node ELSE BinOp(left, op, r.node),
                      SumOp(toks, r.pos))
    ELSE POk(IF left = NoneV THEN r.node ELSE BinOp(left, op, r.node), r.pos)

ParseSumLoop(toks, i, left, op) == SumStep(toks, left, op, ParseProduct(toks, i))

ParseExpr(toks, i) == ParseSumLoop(toks, i, NoneV, "Add")

RECURSIVE ParseAssignRest(_, _, _, _)

AssignWith(toks, targets, last, r) ==
    IF r.ok THEN ParseAssignRest(toks, r.pos, Append(targets, AsStore(last)), r.node)
    ELSE PFail

\* expr ('=' expr)*: every expression but the last is a target
ParseAssignRest(toks, i, targets, last) ==
    IF IsOp(toks, i, "=")
    THEN IF last.kind \in {"Name", "Attribute"}
         THEN AssignWith(toks, targets, last, ParseExpr(toks, i + 1))
         ELSE PFail
    ELSE POk(IF targets = <<>> THEN Expr(last) ELSE Assign(targets, last), i)

RECURSIVE ParseDotted(_, _, _)
\* NAME ('.' NAME)*: node is the dotted name, as a string
ParseDotted(toks, i, acc) ==
    IF IsKind(toks, i, "name")
    THEN IF IsOp(toks, i + 1, ".")
         THEN ParseDotted(toks, i + 2, acc \o toks[i].s \o <<".">>)
         ELSE POk(StrV(acc \o toks[i].s), i + 1)
    ELSE PFail

\* ['as' NAME] after an imported name
ParseAsName(toks, i) ==
    IF IsKw(toks, i, <<"a","s">>)
    THEN IF IsKind(toks, i + 1, "name") THEN POk(StrV(toks[i + 1].s), i + 2) ELSE PFail
    ELSE POk(NoneV, i)

RECURSIVE ParseImportNames(_, _, _, _)

\* the alias of the name parsed as n and the as-name parsed as a joins acc
AliasWith(toks, dotted, acc, n, a) ==
    IF ~a.ok THEN LFail
    ELSE IF IsOp(toks, a.pos, ",")
    THEN ParseImportNames(toks, a.pos + 1, dotted, Append(acc, Alias(n.node.sval, a.node)))
    ELSE LOk(Append(acc, Alias(n.node.sval, a.node)), a.pos)

AliasOf(toks, dotted, acc, n) ==
    AliasWith(toks, dotted, acc, n, IF n.ok THEN ParseAsName(toks, n.pos) ELSE PFail)

\* the aliases of an import (dotted names) or of a from-import (plain names)
ParseImportNames(toks, i, dotted, acc) ==
    AliasOf(toks, dotted, acc,
            IF dotted THEN ParseDotted(toks, i, <<>>)
            ELSE IF IsKind(toks, i, "name") THEN POk(StrV(toks[i].s), i + 1) ELSE PFail)

ImportOf(n) == IF n.ok THEN POk(Import(n.stmts), n.pos) ELSE PFail

ImportFromOf(m, n) == IF n.ok THEN POk(ImportFrom(m.node.sval, n.stmts), n.pos) ELSE PFail

\* what follows from and the module name parsed as m
FromNames(toks, m) ==
    IF m.ok /\ IsKw(toks, m.pos, <<"i","m","p","o","r","t">>)
    THEN IF IsOp(toks, m.pos + 1, "*")
         THEN POk(ImportFrom(m.node.sval, <<Alias(<<"*">>, NoneV)>>), m.pos + 2)
         ELSE ImportFromOf(m, ParseImportNames(toks, m.pos + 1, FALSE, <<>>))
    ELSE PFail

AssignOf(toks, e) == IF e.ok THEN ParseAssignRest(toks, e.pos, <<>>, e.node) ELSE PFail

ParseSimple(toks, i) ==
    IF IsKw(toks, i, <<"i","m","p","o","r","t">>)
    THEN ImportOf(ParseImportNames(toks, i + 1, TRUE, <<>>))
    ELSE IF IsKw(toks, i, <<"f","r","o","m">>) THEN FromNames(toks, ParseDotted(toks, i + 1, <<>>))
    ELSE IF IsKw(toks, i, <<"p","a","s","s">>) THEN POk(Node("Pass", <<>>), i + 1)
    ELSE AssignOf(toks, ParseExpr(toks, i))

RECURSIVE ParseSimpleList(_, _, _)

\* after the simple statement parsed as s: the end of the line, or a semicolon and
\* either the end of the line or the next statement
SimpleThen(toks, acc, s, j) ==
    IF AtEol(toks, j) THEN LOk(Append(acc, s.node), j + 1)
    ELSE IF j > s.pos THEN ParseSimpleList(toks, j, Append(acc, s.node))
    ELSE LFail

SimpleOf(toks, acc, s) ==
    IF ~s.ok THEN LFail
    ELSE SimpleThen(toks, acc, s, IF IsOp(toks, s.pos, ";") THEN s.pos + 1 ELSE s.pos)

\* simple_stmt (';' simple_stmt)* [';'] NEWLINE
ParseSimpleList(toks, i, acc) == SimpleOf(toks, acc, ParseSimple(toks, i))

RECURSIVE ParseStmts(_, _, _, _), ParseLine(_, _, _), ParseSuite(_, _, _)

\* the body of a compound statement, after its colon
ParseSuite(toks, i, indent) ==
    IF AtEol(toks, i)
    THEN IF IsKind(toks, i + 1, "indent") /\ Len(toks[i + 1].s) > indent
         THEN ParseStmts(toks, i + 1, Len(toks[i + 1].s), <<>>)
         ELSE LFail
    ELSE ParseSimpleList(toks, i, <<>>)

IfOf(c, b) == IF b.ok THEN LOk(<<If(c.node, b.stmts)>>, b.pos) ELSE LFail

IfBody(toks, indent, c) ==
    IfOf(c, IF c.ok /\ IsOp(toks, c.pos, ":") THEN ParseSuite(toks, c.pos + 1, indent) ELSE LFail)

DefOf(name, b) == IF b.ok THEN LOk(<<FunctionDef(name, b.stmts)>>, b.pos) ELSE LFail

\* a compound statement at i: if EXPR ':' suite, or def NAME '(' ')' ':' suite
ParseCompound(toks, i, indent) ==
    IF IsKw(toks, i, <<"i","f">>) THEN IfBody(toks, indent, ParseExpr(toks, i + 1))
    ELSE IF /\ IsKind(toks, i + 1, "name") /\ IsOp(toks, i + 2, "(")
            /\ IsOp(toks, i + 3, ")") /\ IsOp(toks, i + 4, ":")
    THEN DefOf(toks[i + 1].s, ParseSuite(toks, i + 5, indent))
    ELSE LFail

\* one logical line, after its indentation
ParseLine(toks, i, indent) ==
    IF IsKw(toks, i, <<"i","f">>) \/ IsKw(toks, i, <<"d","e","f">>)
    THEN ParseCompound(toks, i, indent)
    ELSE ParseSimpleList(toks, i, <<>>)

StmtsWith(toks, indent, acc, l) ==
    IF l.ok THEN ParseStmts(toks, l.pos, indent, acc \o l.stmts) ELSE LFail

\* the statements at one indentation, up to the end or the first dedent
ParseStmts(toks, i, indent, acc) ==
    IF i > Len(toks) THEN LOk(acc, i)
    ELSE IF toks[i].k # "indent" THEN LFail
    ELSE IF Len(toks[i].s) < indent THEN LOk(acc, i)
    ELSE IF Len(toks[i].s) > indent THEN LFail
    ELSE StmtsWith(toks, indent, acc, ParseLine(toks, i + 1, indent))

\* the exceptions a parse can end with besides SyntaxError: resource faults of the
\* interpreter, which do not depend on the text alone
ParseFaults == {"MemoryError", "RecursionError", "ValueError"}

TreeOf(toks, r) ==
    IF (\E k \in 1..Len(toks) : toks[k].k = "bad") \/ ~r.ok
    THEN [exc |-> "SyntaxError", tree |-> NoneV]
    ELSE [exc |-> "none", tree |-> Module(r.stmts)]

ParseTokens(toks) == TreeOf(toks, ParseStmts(toks, 1, 0, <<>>))

\* ast.parse(text) under the fault the interpreter meets ("none": no fault): the
\* tree, or the exception raised
ast_parse(text, fault) ==
    IF fault # "none" THEN [exc |-> fault, tree |-> NoneV]
    ELSE ParseTokens(Tokenize(text))

\* the classes that except Exception catches, among those a parse can raise
ExceptionClasses == {"SyntaxError", "MemoryError", "RecursionError", "ValueError"}

NoTree == [exc |-> "none", tree |-> EmptyTree]

\* parse_to_ast without its last clause, except Exception
Handle_NoCatchAll(r) ==
    IF r.exc = "none" THEN r
    ELSE IF r.exc = "SyntaxError" THEN NoTree
    ELSE IF r.exc = "MemoryError" THEN NoTree
    ELSE r

\* the three except clauses of parse_to_ast, in order, each returning ast.parse('')
Handle(r) ==
    IF r.exc = "none" THEN r
    ELSE IF r.exc = "SyntaxError" THEN NoTree
    ELSE IF r.exc = "MemoryError" THEN NoTree
    ELSE IF r.exc \in ExceptionClasses THEN NoTree
    ELSE r

parse_to_ast(cleaned_code, fault) == Handle(ast_parse(cleaned_code, fault))

(***************************************************************************)
(* json.loads on objects, arrays, strings (escapes of the quote, the       *)
(* backslash, the slash, n, r and t), unsigned integers, true, false and    *)
(* null; a parse result is POk(value, position after it) or PFail.         *)
(***************************************************************************)
ObjV(keys, vals) == [t |-> "obj", keys |-> keys, vals |-> vals]

BoolV(b) == [t |-> "bool", bval |-> b]

JsonSpace == {" ", "\t", "\n", "\r"}

\* the character of text at i, or "" past its end
At(text, i) == IF i >= 1 /\ i <= Len(text) THEN text[i] ELSE ""

\* dict[key] of a parsed object: the value of the last member named key
HasKey(obj, key) == \E k \in 1..Len(obj.keys) : obj.keys[k] = key

Lookup(obj, key) == obj.vals[MaxOf({k \in 1..Len(obj.keys) : obj.keys[k] = key})]

JsonEscapes == {"\"", "\\", "/", "n", "r", "t"}

\* the content s of a string literal with its escapes replaced; k is the index of a
\* character of s, escaped when an odd run of backslashes comes before it
EscapedAt(s, k) == (k - 1 - MaxOf({j \in 0..(k - 1) : j = 0 \/ s[j] # "\\"})) % 2 = 1

Unescape(s) ==
    Flatten([k \in 1..Len(s) |->
        IF EscapedAt(s, k)
        THEN (IF s[k] = "n" THEN <<"\n">> ELSE IF s[k] = "r" THEN <<"\r">>
              ELSE IF s[k] = "t" THEN <<"\t">> ELSE <<s[k]>>)
        ELSE IF s[k] = "\\" THEN <<>> ELSE <<s[k]>>])

\* a string literal whose opening quote is at i and closing quote at e
JsonString(text, i, e) ==
    IF e = 0 \/ (\E k \in (i + 1)..(e - 1) : text[k] = "\t")
       \/ (\E k \in 1..(e - i - 1) :
              EscapedAt(SubSeq(text, i + 1, e - 1), k) /\ text[i + k] \notin JsonEscapes)
    THEN PFail
    ELSE POk(StrV(Unescape(SubSeq(text, i + 1, e - 1))), e + 1)

JsonNumber(text, i, e) ==
    IF e = i THEN PFail
    ELSE IF e > i + 1 /\ text[i] = "0" THEN PFail
    ELSE POk(IntV(DecimalValue(SubSeq(text, i, e - 1))), e)

RECURSIVE JsonValue(_, _), JsonItems(_, _, _, _), JsonMembers(_, _, _, _, _)

\* after the item parsed as r: a comma and more items, or the closing bracket
ItemThen(text, acc, r, j) ==
    IF ~r.ok THEN PFail
    ELSE IF At(text, j) = "," THEN JsonItems(text, j + 1, Append(acc, r.node), FALSE)
    ELSE IF At(text, j) = "]" THEN POk(ListV(Append(acc, r.node)), j + 1)
    ELSE PFail

ItemOf(text, acc, r) == ItemThen(text, acc, r, IF r.ok THEN RunEnd(text, r.pos, JsonSpace) ELSE 0)

\* the items of an array from i on; first: no item has been read yet
JsonItems(text, i, acc, first) ==
    IF first /\ At(text, RunEnd(text, i, JsonSpace)) = "]"
    THEN POk(ListV(acc), RunEnd(text, i, JsonSpace) + 1)
    ELSE ItemOf(text, acc, JsonValue(text, i))

\* after the member value parsed as r
MemberThen(text, keys, vals, key, r, j) ==
    IF ~r.ok THEN PFail
    ELSE IF At(text, j) = ","
    THEN JsonMembers(text, j + 1, Append(keys, key.node.sval), Append(vals, r.node), FALSE)
    ELSE IF At(text, j) = "}"
    THEN POk(ObjV(Append(keys, key.node.sval), Append(vals, r.node)), j + 1)
    ELSE PFail

MemberOf(text, keys, vals, key, r) ==
    MemberThen(text, keys, vals, key, r, IF r.ok THEN RunEnd(text, r.pos, JsonSpace) ELSE 0)

\* after the member name parsed as key: a colon at j, then the value
MemberValue(text, keys, vals, key, j) ==
    IF ~key.ok \/ At(text, j) # ":" THEN PFail
    ELSE MemberOf(text, keys, vals, key, JsonValue(text, j + 1))

MemberName(text, keys, vals, key) ==
    MemberValue(text, keys, vals, key, IF key.ok THEN RunEnd(text, key.pos, JsonSpace) ELSE 0)

\* the members of an object from i on
JsonMembers(text, i, keys, vals, first) ==
    IF first /\ At(text, RunEnd(text, i, JsonSpace)) = "}"
    THEN POk(ObjV(keys, vals), RunEnd(text, i, JsonSpace) + 1)
    ELSE IF At(text, RunEnd(text, i, JsonSpace)) # "\"" THEN PFail
    ELSE MemberName(text, keys, vals,
             JsonString(text, RunEnd(text, i, JsonSpace),
                        StringEnd(text, RunEnd(text, i, JsonSpace) + 1, "\"")))

\* the value that starts at i, after white space
JsonValueAt(text, i) ==
    IF At(text, i) = "{" THEN JsonMembers(text, i + 1, <<>>, <<>>, TRUE)
    ELSE IF At(text, i) = "[" THEN JsonItems(text, i + 1, <<>>, TRUE)
    ELSE IF At(text, i) = "\"" THEN JsonString(text, i, StringEnd(text, i + 1, "\""))
    ELSE IF At(text, i) \in Digit THEN JsonNumber(text, i, RunEnd(text, i, Digit))
    ELSE IF StartsWithAt(text, i, <<"t","r","u","e">>) THEN POk(BoolV(TRUE), i + 4)
    ELSE IF StartsWithAt(text, i, <<"f","a","l","s","e">>) THEN POk(BoolV(FALSE), i + 5)
    ELSE IF StartsWithAt(text, i, <<"n","u","l","l">>) THEN POk(NoneV, i + 4)
    ELSE PFail

JsonValue(text, i) == JsonValueAt(text, RunEnd(text, i, JsonSpace))

\* json.loads(text): the whole text is one value, or the parse fails
WholeText(text, r) == IF r.ok /\ RunEnd(text, r.pos, JsonSpace) > Len(text) THEN r ELSE PFail

json_loads(text) == WholeText(text, JsonValue(text, 1))

(***************************************************************************)
(* parse_notebook.  Any exception in it gives the empty text.              *)
(***************************************************************************)
\* the values a for loop over v iterates, and whether v can be iterated
Iterable(v) == v.t \in {"list", "str", "obj"}

IterItems(v) ==
    IF v.t = "list" THEN v.items
    ELSE IF v.t = "str" THEN [k \in 1..Len(v.sval) |-> StrV(<<v.sval[k]>>)]
    ELSE [k \in 1..Len(v.keys) |-> StrV(v.keys[k])]

\* '%' in line[:1], and whether the test and extracted += line both succeed
LineSkipped(line) ==
    \/ line.t = "str" /\ Len(line.sval) >= 1 /\ line.sval[1] = "%"
    \/ line.t = "list" /\ Len(line.items) >= 1 /\ line.items[1] = StrV(<<"%">>)

LineOk(line) == line.t = "str" \/ LineSkipped(line)

\* one iteration of the loop over the cells: what it adds to extracted, or failure
CellText(cell) ==
    IF cell.t # "obj" \/ ~HasKey(cell, <<"c","e","l","l","_","t","y","p","e">>)
    THEN [ok |-> FALSE, text |-> <<>>]
    ELSE IF Lookup(cell, <<"c","e","l","l","_","t","y","p","e">>) # StrV(<<"c","o","d","e">>)
    THEN [ok |-> TRUE, text |-> <<>>]
    ELSE IF ~HasKey(cell, <<"s","o","u","r","c","e">>)
    THEN [ok |-> FALSE, text |-> <<>>]
    ELSE IF Lookup(cell, <<"s","o","u","r","c","e">>) = ListV(<<StrV(<<>>)>>)
    THEN [ok |-> TRUE, text |-> <<>>]
    ELSE IF ~Iterable(Lookup(cell, <<"s","o","u","r","c","e">>))
    THEN [ok |-> FALSE, text |-> <<>>]
    ELSE LET source == IterItems(Lookup(cell, <<"s","o","u","r","c","e">>))
         IN  [ok |-> \A k \in 1..Len(source) : LineOk(source[k]),
              text |-> Flatten([k \in 1..Len(source) |->
                           IF LineSkipped(source[k]) \/ source[k].t # "str" THEN <<>>
                           ELSE source[k].sval]) \o <<"\n">>]

\* the loop over json.loads(code)['cells'], document being the parse of code
NotebookText(document) ==
    IF ~document.ok \/ document.node.t # "obj"
       \/ ~HasKey(document.node, <<"c","e","l","l","s">>)
    THEN <<>>
    ELSE IF ~Iterable(Lookup(document.node, <<"c","e","l","l","s">>)) THEN <<>>
    ELSE LET cells == IterItems(Lookup(document.node, <<"c","e","l","l","s">>))
         IN  IF \A k \in 1..Len(cells) : CellText(cells[k]).ok
             THEN Flatten([k \in 1..Len(cells) |-> CellText(cells[k]).text])
             ELSE <<>>

parse_notebook(code) == NotebookText(json_loads(code))

(***************************************************************************)
(* The tree walks: metadata_parser.find_occurences (Structural Counter)    *)
(* and functions_parser.find_functions (Builtin-Usage Counter).            *)
(***************************************************************************)
\* The recursion limit, counted in nested calls of the walk.  The programs run
\* under sys.setrecursionlimit(3000) or the interpreter's default; the model
\* scales the ceiling down to the depth of its trees.
DepthCeiling == 7

\* e, with v computed first: the walks update their counters as they go, where an
\* operator's argument would be computed only when it is first read
Eager(v, e) == IF v = v THEN e ELSE e

\* Children when the items of a list are not walked
Children_ListsSkipped(node) ==
    IF node.t # "ast" THEN <<>>
    ELSE Flatten([k \in 1..Len(node.fields) |->
            LET value == node.fields[k].val
            IN  IF value.t \notin {"list", "none"} THEN <<value>> ELSE <<>>])

\* the values find_occurences calls itself on, in order: for each of _fields, the
\* items of a list, or the value itself unless it is None
Children(node) ==
    IF node.t # "ast" THEN <<>>
    ELSE Flatten([k \in 1..Len(node.fields) |->
            LET value == node.fields[k].val
            IN  IF value.t = "list" THEN value.items
                ELSE IF value.t # "none" THEN <<value>>
                ELSE <<>>])

\* the isinstance chain of find_occurences
CountNode(node, counts) ==
    IF node.t = "ast" /\ node.kind = "Call" THEN [counts EXCEPT !.calls = @ + 1]
    ELSE IF node.t = "ast" /\ node.kind = "Assign" THEN [counts EXCEPT !.assignments = @ + 1]
    ELSE IF node.t = "ast" /\ node.kind = "Attribute" THEN [counts EXCEPT !.attributes = @ + 1]
    ELSE counts

\* the nested calls logging.debug needs below the frame that calls it
HandlerFrames == 2

\* the except clause of the frame at depth: logging.debug(...) is a call like any
\* other, so within HandlerFrames of the ceiling it raises RecursionError itself,
\* and that one leaves the frame; further from the ceiling the error is logged and
\* the frame returns, without visiting the children that are left
Caught(acc, depth) ==
    IF depth + HandlerFrames > DepthCeiling THEN [acc EXCEPT !.raising = TRUE]
    ELSE [acc EXCEPT !.overflow = TRUE, !.raising = FALSE]

RECURSIVE find_occurences(_, _, _), OccurencesLoop(_, _, _, _), OccurencesNext(_, _, _, _)

\* after the call on the k-th child returned or raised: a RecursionError that left
\* the call is caught by the except clause of this frame
OccurencesNext(children, k, after, depth) ==
    IF after.raising THEN Caught(after, depth)
    ELSE Eager(after, OccurencesLoop(children, k + 1, after, depth))

\* the for loops of the call at depth, from the k-th child on.  A call beyond the
\* ceiling raises RecursionError at the call site, inside the try of this frame.
OccurencesLoop(children, k, acc, depth) ==
    IF k > Len(children) THEN acc
    ELSE IF depth + 1 > DepthCeiling THEN Caught(acc, depth)
    ELSE OccurencesNext(children, k, find_occurences(children[k], acc, depth + 1), depth)

\* find_occurences(node, counts) running as the depth-th nested call; acc holds the
\* counts, whether a RecursionError was caught and logged so far, and whether one
\* is leaving the call
find_occurences(node, acc, depth) ==
    OccurencesLoop(Children(node), 1, [acc EXCEPT !.counts = CountNode(node, @)], depth)

ZeroCounts == [calls |-> 0, assignments |-> 0, attributes |-> 0]

\* the accumulator of a walk that starts
NoOccurences == [counts |-> ZeroCounts, overflow |-> FALSE, raising |-> FALSE]

\* the names get_builtin_functions() returns that the model's snippets use
BuiltinFunctions == {<<"l","e","n">>, <<"p","r","i","n","t">>, <<"m","a","x">>}

\* counts[func_name] += 1 on a defaultdict(int)
Incr(counts, key) ==
    IF key \in DOMAIN counts THEN [counts EXCEPT ![key] = @ + 1] ELSE counts @@ (key :> 1)

\* the nodes find_functions calls itself on, in order: of a Call only func, of any
\* other node the ast.AST values of iter_fields and the ast.AST items of its lists
FunctionChildren(node) ==
    IF node.kind = "Call" THEN <<FieldOf(node, "func")>>
    ELSE Flatten([k \in 1..Len(node.fields) |->
            LET child_node == node.fields[k].val
            IN  IF child_node.t = "ast" THEN <<child_node>>
                ELSE IF child_node.t = "list"
                THEN SelectSeq(child_node.items, LAMBDA child : child.t = "ast")
                ELSE <<>>])

\* the first branch of find_functions: an Attribute or a Name of the builtin set
CountFunction(node, counts, builtin_functions) ==
    LET func_name == IF node.kind = "Attribute" THEN FieldOf(node, "attr").sval
                     ELSE FieldOf(node, "id").sval
    IN  IF node.kind \in {"Attribute", "Name"} /\ func_name \in builtin_functions
        THEN Incr(counts, func_name) ELSE counts

RECURSIVE find_functions(_, _, _, _), FunctionsLoop(_, _, _, _, _)

\* the loops of the call at depth, from the k-th child on: find_functions catches
\* nothing, so a RecursionError ends every frame of the walk
FunctionsLoop(children, k, acc, builtin_functions, depth) ==
    IF k > Len(children) \/ acc.raised THEN acc
    ELSE IF depth + 1 > DepthCeiling THEN [acc EXCEPT !.raised = TRUE]
    ELSE FunctionsLoop(children, k + 1,
             find_functions(children[k], acc, builtin_functions, depth + 1),
             builtin_functions, depth)

\* find_functions(node, counts, builtin_functions) running as the depth-th nested
\* call; acc holds the counts and whether RecursionError is propagating
find_functions(node, acc, builtin_functions, depth) ==
    FunctionsLoop(FunctionChildren(node), 1,
        [acc EXCEPT !.counts = CountFunction(node, @, builtin_functions)],
        builtin_functions, depth)

(***************************************************************************)
(* process_chunk of metadata_parser (structural counts) and of             *)
(* functions_parser (builtin-usage counts).  A result has out "empty" for  *)
(* the empty dict, "record" for a dict with a chunk_id, and "raised" when  *)
(* an exception leaves the function.                                       *)
(***************************************************************************)
\* the text handed to parse_to_ast and the notebook flag, from the cleaned text
Normalized(chunk_id, cleaned) ==
    [empty |-> FALSE, chunk_id |-> chunk_id, is_jupyter |-> is_ipynb(cleaned),
     cleaned_code |-> IF is_ipynb(cleaned) THEN parse_notebook(cleaned) ELSE cleaned]

\* if not extracted_code: return {}; else chunk_id and cleanup_extracted_code
Extracted(e) ==
    IF e.code = <<>>
    THEN [empty |-> TRUE, chunk_id |-> <<>>, is_jupyter |-> FALSE, cleaned_code |-> <<>>]
    ELSE Normalized(UpToComma(e.id_and_size),
                    cleanup_extracted_code(e.code, UpToComma(e.id_and_size)))

\* the lines the two process_chunk functions share, up to the call of parse_to_ast
ChunkText(code_chunk) == Extracted(extract_code(code_chunk))

\* the tree process_chunk works on ([exc, tree], as ast_parse), n being ChunkText
ChunkTree(n, fault) == IF n.empty THEN NoTree ELSE parse_to_ast(n.cleaned_code, fault)

\* CountRecord when the notebook flag is not passed on
CountRecord_FlagDropped(chunk_id, counts, size, is_jupyter) ==
    [out |-> "record", chunk_id |-> chunk_id, calls |-> counts.calls,
     assignments |-> counts.assignments, attributes |-> counts.attributes,
     size |-> size, is_ipynb |-> FALSE]

\* dict(chunk_id=chunk_id, **counts)
CountRecord(chunk_id, counts, size, is_jupyter) ==
    [out |-> "record", chunk_id |-> chunk_id, calls |-> counts.calls,
     assignments |-> counts.assignments, attributes |-> counts.attributes,
     size |-> size, is_ipynb |-> is_jupyter]

\* the lines of process_chunk after find_occurences, which it calls outside any try
StructuralRecord(n, walk) ==
    IF walk.raising THEN [out |-> "raised", exc |-> "RecursionError"]
    ELSE CountRecord(n.chunk_id, walk.counts, Len(n.cleaned_code), n.is_jupyter)

MetadataRecord(n, code_tree) ==
    IF n.empty THEN [out |-> "empty"]
    ELSE IF code_tree.exc # "none" THEN [out |-> "raised", exc |-> code_tree.exc]
    ELSE StructuralRecord(n, find_occurences(code_tree.tree, NoOccurences, 1))

metadata_process_chunk(code_chunk, fault) ==
    MetadataRecord(ChunkText(code_chunk), ChunkTree(ChunkText(code_chunk), fault))

\* the builtin counts: find_functions under try/except, so its RecursionError ends
\* the walk and the counts made so far are kept
FunctionsRecord(n, code_tree) ==
    IF n.empty THEN [out |-> "empty"]
    ELSE IF code_tree.exc # "none" THEN [out |-> "raised", exc |-> code_tree.exc]
    ELSE [out |-> "record", chunk_id |-> n.chunk_id,
          counts |-> find_functions(code_tree.tree, [counts |-> <<>>, raised |-> FALSE],
                                    BuiltinFunctions, 1).counts]

functions_process_chunk(code_chunk, fault) ==
    FunctionsRecord(ChunkText(code_chunk), ChunkTree(ChunkText(code_chunk), fault))

(***************************************************************************)
(* std_library_parser: the import table of a snippet, the components to    *)
(* search for, and their counts in the text of the snippet.                *)
(***************************************************************************)
Range(s) == {s[k] : k \in DOMAIN s}

\* d[key] = value on a dict
Put(d, key, value) == [x \in DOMAIN d \cup {key} |-> IF x = key THEN value ELSE d[x]]

\* alias.asname if alias.asname else alias.name
AliasName(alias) ==
    IF FieldOf(alias, "asname") = NoneV \/ FieldOf(alias, "asname").sval = <<>>
    THEN FieldOf(alias, "name").sval ELSE FieldOf(alias, "asname").sval

RECURSIVE ImportAliases(_, _, _)
\* for alias in node.names: imports[alias.name] = (alias_name, [])
ImportAliases(names, k, imports) ==
    IF k > Len(names) THEN imports
    ELSE ImportAliases(names, k + 1,
             Put(imports, FieldOf(names[k], "name").sval,
                 [alias |-> AliasName(names[k]), names |-> <<>>]))

\* the ImportFrom branch: the entry of the module, made if there is none, gets the
\* alias names appended to its list
ImportFromNames(module, names, imports) ==
    Put(imports, module,
        [alias |-> IF module \in DOMAIN imports THEN imports[module].alias ELSE module,
         names |-> (IF module \in DOMAIN imports THEN imports[module].names ELSE <<>>)
                   \o [k \in 1..Len(names) |-> AliasName(names[k])]])

RECURSIVE ImportsLoop(_, _, _)
\* for node in code_tree.body
ImportsLoop(body, k, imports) ==
    IF k > Len(body) THEN imports
    ELSE ImportsLoop(body, k + 1,
             IF body[k].kind = "Import"
             THEN ImportAliases(FieldOf(body[k], "names").items, 1, imports)
             ELSE IF body[k].kind = "ImportFrom"
             THEN ImportFromNames(FieldOf(body[k], "module").sval,
                                  FieldOf(body[k], "names").items, imports)
             ELSE imports)

\* the table of the tree parsed as r, {} when the parse raised
ImportsOf(r) ==
    IF r.exc # "none" THEN <<>> ELSE ImportsLoop(FieldOf(r.tree, "body").items, 1, <<>>)

\* extract_imports(contents): module name -> (alias, names imported from it)
extract_imports(contents) == ImportsOf(ast_parse(contents, "none"))

\* the component types of the library dictionary, and f'from_import_{key}'
ComponentTypes == {"function", "method", "class", "exception", "attribute"}

FromImport(key) == "from_import_" \o key

\* a defaultdict(list) after the appends of the loops over the direct imports and
\* the components: a key for each component type holding an imported name
DirectImports(names, std_lib_components) ==
    LET found(component) ==
            SelectSeq(names, LAMBDA direct_import :
                direct_import \in Range(std_lib_components[component]))
        hit == {component \in DOMAIN std_lib_components : found(component) # <<>>}
    IN  [key \in {FromImport(component) : component \in hit} |->
            found(CHOOSE component \in hit : FromImport(component) = key)]

\* get_components_to_search with every from-import taken as a list of names
get_components_to_search_NoWildcard(code_chunk_imports, standard_library_dict) ==
    LET imported == DOMAIN standard_library_dict \cap DOMAIN code_chunk_imports
    IN  [pair \in {<<name, code_chunk_imports[name].alias>> : name \in imported} |->
            IF code_chunk_imports[pair[1]].names # <<>>
            THEN DirectImports(code_chunk_imports[pair[1]].names, standard_library_dict[pair[1]])
            ELSE standard_library_dict[pair[1]]]

\* get_components_to_search: (library, alias) -> component type -> names
get_components_to_search(code_chunk_imports, standard_library_dict) ==
    LET imported == DOMAIN standard_library_dict \cap DOMAIN code_chunk_imports
    IN  [pair \in {<<name, code_chunk_imports[name].alias>> : name \in imported} |->
            IF code_chunk_imports[pair[1]].names # <<>>
            THEN IF <<"*">> \in Range(code_chunk_imports[pair[1]].names)
                 THEN [key \in {FromImport(component) :
                                   component \in DOMAIN standard_library_dict[pair[1]]} |->
                          standard_library_dict[pair[1]][
                              CHOOSE component \in DOMAIN standard_library_dict[pair[1]] :
                                  FromImport(component) = key]]
                 ELSE DirectImports(code_chunk_imports[pair[1]].names,
                                    standard_library_dict[pair[1]])
            ELSE standard_library_dict[pair[1]]]

\* the list the append of line 83 is made to, filtered[...][key] on the
\* defaultdict(list) of line 76: a list of its own ("own"), made for the key when the
\* key is missing, never the bucket of the dictionary the names are looked up in
ListUnder_Bucket(key, component) == component

ListUnder(key, component) == "own"

\* the bucket of one component after the appends of a from-import of names: the
\* appends made to a list that is the bucket itself are found in the dictionary
BucketAfter(names, bucket, target, component) ==
    IF target = component
    THEN bucket \o SelectSeq(names, LAMBDA direct_import : direct_import \in Range(bucket))
    ELSE bucket

\* a library of the dictionary after get_components_to_search: the copies of lines
\* 78 and 85 and the dict of line 78 are new dicts that hold the lists of the
\* dictionary, and nothing is written to these; line 83 appends
LibraryAfter(imported, std_lib_components) ==
    IF imported.names = <<>> \/ <<"*">> \in Range(imported.names) THEN std_lib_components
    ELSE [component \in DOMAIN std_lib_components |->
             BucketAfter(imported.names, std_lib_components[component],
                         ListUnder(FromImport(component), component), component)]

\* the dictionary handed to get_components_to_search, after the call
DictionaryAfter(code_chunk_imports, standard_library_dict) ==
    [std_library_name \in DOMAIN standard_library_dict |->
        IF std_library_name \in DOMAIN code_chunk_imports
        THEN LibraryAfter(code_chunk_imports[std_library_name],
                          standard_library_dict[std_library_name])
        ELSE standard_library_dict[std_library_name]]

\* a word character at i: what \b looks at on either side
IsWordAt(text, i) == At(text, i) \in WordChar

\* the alternative of (a|b|...) that matches at j: the first of the list the text
\* continues with and, when whole, a \b follows; <<>> when there is none
NameAt(text, j, names, whole) ==
    LET ks == {k \in 1..Len(names) :
                  /\ StartsWithAt(text, j, names[k])
                  /\ whole => ~IsWordAt(text, j + Len(names[k]))}
    IN  IF ks = {} THEN <<>> ELSE names[MinOf(ks)]

\* MatchAt where the third pattern has no (?<!\.)
MatchAt_NoLookbehind(text, j, component_type, alias_name, names) ==
    IF component_type \in {"function", "exception"}
    THEN IF StartsWithAt(text, j, alias_name \o <<".">>)
         THEN [name |-> NameAt(text, j + Len(alias_name) + 1, names, FALSE),
               len |-> IF NameAt(text, j + Len(alias_name) + 1, names, FALSE) = <<>> THEN 0
                       ELSE Len(alias_name) + 1
                            + Len(NameAt(text, j + Len(alias_name) + 1, names, FALSE))]
         ELSE [name |-> <<>>, len |-> 0]
    ELSE IF component_type \in {"method", "class", "attribute"}
    THEN IF At(text, j) = "."
         THEN [name |-> NameAt(text, j + 1, names, FALSE),
               len |-> IF NameAt(text, j + 1, names, FALSE) = <<>> THEN 0
                       ELSE 1 + Len(NameAt(text, j + 1, names, FALSE))]
         ELSE [name |-> <<>>, len |-> 0]
    ELSE IF ~IsWordAt(text, j - 1)
    THEN [name |-> NameAt(text, j, names, TRUE), len |-> Len(NameAt(text, j, names, TRUE))]
    ELSE [name |-> <<>>, len |-> 0]

\* the match of the pattern of component_type at j: the name found and the length
\* of the match (0: no match).  The three patterns of count_library_components:
\*   alias\.(a|b)   \.(?:a|b)   (?<!\.)\b(?:a|b)\b
MatchAt(text, j, component_type, alias_name, names) ==
    IF component_type \in {"function", "exception"}
    THEN IF StartsWithAt(text, j, alias_name \o <<".">>)
         THEN [name |-> NameAt(text, j + Len(alias_name) + 1, names, FALSE),
               len |-> IF NameAt(text, j + Len(alias_name) + 1, names, FALSE) = <<>> THEN 0
                       ELSE Len(alias_name) + 1
                            + Len(NameAt(text, j + Len(alias_name) + 1, names, FALSE))]
         ELSE [name |-> <<>>, len |-> 0]
    ELSE IF component_type \in {"method", "class", "attribute"}
    THEN IF At(text, j) = "."
         THEN [name |-> NameAt(text, j + 1, names, FALSE),
               len |-> IF NameAt(text, j + 1, names, FALSE) = <<>> THEN 0
                       ELSE 1 + Len(NameAt(text, j + 1, names, FALSE))]
         ELSE [name |-> <<>>, len |-> 0]
    ELSE IF At(text, j - 1) # "." /\ ~IsWordAt(text, j - 1)
    THEN [name |-> NameAt(text, j, names, TRUE), len |-> Len(NameAt(text, j, names, TRUE))]
    ELSE [name |-> <<>>, len |-> 0]

RECURSIVE FindAll(_, _, _, _, _)
\* re.findall(pattern, code_chunk) from i on: the names matched, left to right,
\* each match starting where the one before ended or later
FindAll(text, i, component_type, alias_name, names) ==
    LET hits == {j \in i..Len(text) : MatchAt(text, j, component_type, alias_name, names).len > 0}
    IN  IF hits = {} THEN <<>>
        ELSE <<MatchAt(text, MinOf(hits), component_type, alias_name, names).name>>
             \o FindAll(text,
                        MinOf(hits) + MatchAt(text, MinOf(hits), component_type, alias_name, names).len,
                        component_type, alias_name, names)

\* Counter(matches)
Counter(matches) ==
    [name \in Range(matches) |-> Cardinality({k \in DOMAIN matches : matches[k] = name})]

\* the loops of count_library_components over components_to_search: for each
\* library the component types with a match, and the Counter of their matches
LibraryCounts(text, components_to_search) ==
    LET matches(pair, component_type) ==
            IF components_to_search[pair][component_type] = <<>> THEN <<>>
            ELSE FindAll(text, 1, component_type, pair[2],
                         components_to_search[pair][component_type])
        matched(pair) ==
            {component_type \in DOMAIN components_to_search[pair] :
                matches(pair, component_type) # <<>>}
        pairs == {pair \in DOMAIN components_to_search : matched(pair) # {}}
    IN  [library_name \in {pair[1] : pair \in pairs} |->
            [component_type \in matched(CHOOSE pair \in pairs : pair[1] = library_name) |->
                Counter(matches(CHOOSE pair \in pairs : pair[1] = library_name,
                                component_type))]]

\* code_chunk.replace(id_and_size, '').replace('""', '"')
SnippetText(code_chunk) ==
    Replace(Replace(code_chunk, HeaderSearch(code_chunk), <<>>), <<"\"", "\"">>, <<"\"">>)

\* count_library_components(code_chunk, library_dict): {} without a header, else
\* {chunk_id: library_component_counts}
count_library_components(code_chunk, library_dict) ==
    IF HeaderSearch(code_chunk) = <<>> THEN [out |-> "empty"]
    ELSE [out |-> "record", chunk_id |-> UpToComma(HeaderSearch(code_chunk)),
          counts |-> LibraryCounts(SnippetText(code_chunk),
                         get_components_to_search(extract_imports(SnippetText(code_chunk)),
                                                  library_dict))]

\* the dictionary handed to count_library_components, after the call: the function
\* reads the lists of components_to_search and writes to its own
\* library_component_counts
DictionaryAfterCount(code_chunk, library_dict) ==
    IF HeaderSearch(code_chunk) = <<>> THEN library_dict
    ELSE DictionaryAfter(extract_imports(SnippetText(code_chunk)), library_dict)

(***************************************************************************)
(* State.  The model has several parts, each with a specification of its   *)
(* own over its own variables, the variables of the other parts staying as *)
(* they start: the tree walks (SpecTree), process_chunk of the structural  *)
(* and builtin pipelines (SpecChunk), the library-usage counter (SpecLib)   *)
(* and the batch run (Spec).                                               *)
(***************************************************************************)
VARIABLES
    node,          \* SpecTree: the syntax tree handed to the walks
    walked,        \* SpecTree: the walks that have run on node
    occurences,    \* SpecTree: counts of find_occurences, and whether it overflowed
    functions,     \* SpecTree: counts of find_functions, and whether it raised
    reordered,     \* SpecTree: counts of find_occurences with the sibling order reversed
    code_chunk,    \* SpecChunk: the record handed to process_chunk
    fault,         \* SpecChunk: the fault ast.parse meets on this record, or "none"
    processed_by,  \* SpecChunk: the module whose process_chunk ran, or "none"
    cleaned_code,  \* SpecChunk: the text process_chunk handed to parse_to_ast
    code_tree,     \* SpecChunk: what parse_to_ast did with it: [exc, tree]
    chunk_result,  \* SpecChunk: what process_chunk returned
    library_dict,              \* SpecLib: the library dictionary
    library_chunk,             \* SpecLib: the record handed to count_library_components
    library_done,              \* SpecLib: the functions that have run on it
    import_statements,         \* SpecLib: what extract_imports returned
    components_to_search,      \* SpecLib: what get_components_to_search returned
    library_component_counts,  \* SpecLib: what count_library_components returned
    pipeline,       \* Spec: the program that runs: the module of its main
    text_files,     \* Spec: the dump files of the input directory, in glob order
    file_index,     \* Spec: the index of the file the loop of main is at
    pc,             \* Spec: where main is: "start", "main", "pool", "done", "aborted", "crashed"
    code_chunks,    \* Spec: the records process_file split the file into
    tasks,          \* Spec: for each record, the state and the result of its pool task
    function_counts, \* Spec: the results process_file has got so far, in order
    faults,         \* Spec: the number of workers that have raised
    parquet_files,  \* Spec: the per-file outputs saved so far: [name, rows]
    final_table,    \* Spec: what concatenate_parquet_files did
    dictionary_readable,  \* Spec: whether the pickle of the library dictionary can be read
    dictionary_loaded,    \* Spec: whether main has loaded the library dictionary
    threadcount,    \* Spec: os.cpu_count(), the number of workers of a pool
    finished,       \* Spec: the tasks of the pool whose worker has ended, in that order
    text_id,        \* SpecText: the chunk identifier handed to cleanup_extracted_code
    text_in,        \* SpecText: the text handed to the normalizer
    text_step,      \* SpecText: the function that ran last, or "none"
    text_out,       \* SpecText: what it returned
    text_again,     \* SpecText: what remove_merge_conflicts returned on its own result
    text_record     \* SpecText: what the structural process_chunk returned for the record

treeVars == <<node, walked, occurences, functions, reordered>>

chunkVars == <<code_chunk, fault, processed_by, cleaned_code, code_tree, chunk_result>>

libVars ==
    <<library_dict, library_chunk, library_done, import_statements, components_to_search,
      library_component_counts>>

runVars ==
    <<pipeline, text_files, file_index, pc, code_chunks, tasks, function_counts, faults,
      parquet_files, final_table, dictionary_readable, dictionary_loaded, threadcount,
      finished>>

textVars == <<text_id, text_in, text_step, text_out, text_again, text_record>>

vars == <<treeVars, chunkVars, libVars, runVars, textVars>>

\* the variables of the other parts
exceptTree == <<chunkVars, libVars, runVars, textVars>>

exceptChunk == <<treeVars, libVars, runVars, textVars>>

exceptLib == <<treeVars, chunkVars, runVars, textVars>>

exceptRun == <<treeVars, chunkVars, libVars, textVars>>

exceptText == <<treeVars, chunkVars, libVars, runVars>>

IdleText ==
    /\ text_id = <<>>
    /\ text_in = <<>>
    /\ text_step = "none"
    /\ text_out = <<>>
    /\ text_again = <<>>
    /\ text_record = [out |-> "pending"]

IdleTree ==
    /\ node = NoneV
    /\ walked = {}
    /\ occurences = NoOccurences
    /\ functions = [counts |-> <<>>, raised |-> FALSE]
    /\ reordered = NoOccurences

IdleChunk ==
    /\ code_chunk = <<>>
    /\ fault = "none"
    /\ processed_by = "none"
    /\ cleaned_code = <<>>
    /\ code_tree = NoTree
    /\ chunk_result = [out |-> "pending"]

IdleLib ==
    /\ library_dict = <<>>
    /\ library_chunk = <<>>
    /\ library_done = {}
    /\ import_statements = <<>>
    /\ components_to_search = <<>>
    /\ library_component_counts = [out |-> "pending"]

IdleRun ==
    /\ pipeline = "none"
    /\ text_files = <<>>
    /\ file_index = 1
    /\ pc = "done"
    /\ code_chunks = <<>>
    /\ tasks = <<>>
    /\ function_counts = <<>>
    /\ faults = 0
    /\ parquet_files = <<>>
    /\ final_table = [out |-> "none"]
    /\ dictionary_readable = TRUE
    /\ dictionary_loaded = FALSE
    /\ threadcount = 0
    /\ finished = <<>>

(***************************************************************************)
(* The trees the walks are run on.                                         *)
(***************************************************************************)
ExampleCode ==
    <<"a"," ","="," ","1"," ","+"," ","2",";"," ","b"," ","="," ","a"," ","*"," ","3",";"," ","c",
    " ","="," ","b",".","a","t","t","r",";"," ","d"," ","="," ","e",".","f","u","n","c","(",")">>

NestedCode ==
    <<"i","f"," ","l","e","n",":","\n"," "," ","m","a","x"," ","="," ","p","r","i","n","t",".","x",
    "(","y","=","l","e","n",".","l","e","n",")">>

\* calls nested beyond the depth ceiling, with two arguments to the innermost
DeepCode ==
    <<"h","(","k","(","f","(","a",".","b",".","c",","," ","g","(",")",")",")",")">>

ArgumentCode ==
    <<"p","r","i","n","t","(","l","e","n","(","x",")",","," ","k","e","y","=","m","a","x",")">>

NameIds == {<<"l","e","n">>, <<"x">>}

Leaves == {Name(id, Load) : id \in NameIds}

\* expressions with one operator over the leaves
Exprs1 ==
    Leaves
    \cup {Attribute(e, a, Load) : e \in Leaves, a \in NameIds}
    \cup {Call(e, <<>>, <<>>) : e \in Leaves}
    \cup {Call(e, <<a>>, <<>>) : e \in Leaves, a \in Leaves}
    \cup {Call(e, <<>>, <<Keyword(<<"k">>, a)>>) : e \in Leaves, a \in Leaves}
    \cup {BinOp(e, "Add", a) : e \in Leaves, a \in Leaves}

\* and with two
Exprs2 ==
    Exprs1
    \cup {Call(e, <<a>>, <<>>) : e \in Leaves, a \in Exprs1}
    \cup {Attribute(e, <<"l","e","n">>, Load) : e \in Exprs1}

Stmts ==
    {Expr(e) : e \in Exprs2} \cup {Assign(<<Name(<<"x">>, Store)>>, e) : e \in Exprs1}

TreeInputs ==
    {Module(<<s>>) : s \in Stmts}
    \cup {Module(<<s, Expr(e)>>) : s \in {Expr(Call(a, <<a>>, <<>>)) : a \in Leaves}, e \in Leaves}
    \cup {ast_parse(c, "none").tree : c \in {ExampleCode, NestedCode, ArgumentCode, DeepCode, <<>>}}

RECURSIVE TreeDepth(_)
\* the deepest nesting of find_occurences calls that a walk of v needs
TreeDepth(v) ==
    LET below == {TreeDepth(Children(v)[k]) : k \in 1..Len(Children(v))}
    IN  IF below = {} THEN 1 ELSE 1 + MaxOf(below)

RECURSIVE NodesOf(_)
\* every node of the tree v, each once
NodesOf(v) ==
    IF v.t = "ast"
    THEN <<v>> \o Flatten([k \in 1..Len(v.fields) |-> NodesOf(v.fields[k].val)])
    ELSE IF v.t = "list" THEN Flatten([k \in 1..Len(v.items) |-> NodesOf(v.items[k])])
    ELSE <<>>

NumKind(v, kind) == Len(SelectSeq(NodesOf(v), LAMBDA n : n.kind = kind))

InitTree ==
    /\ node \in TreeInputs
    /\ walked = {}
    /\ occurences = NoOccurences
    /\ functions = [counts |-> <<>>, raised |-> FALSE]
    /\ reordered = NoOccurences
    /\ IdleChunk
    /\ IdleLib
    /\ IdleRun
    /\ IdleText

\* find_occurences(code_tree, counts), as process_chunk calls it
RunFindOccurences ==
    /\ "find_occurences" \notin walked
    /\ occurences' = find_occurences(node, occurences, 1)
    /\ walked' = walked \cup {"find_occurences"}
    /\ UNCHANGED <<node, functions, reordered, exceptTree>>

\* find_functions(code_tree, builtin_counts, get_builtin_functions())
RunFindFunctions ==
    /\ "find_functions" \notin walked
    /\ functions' = find_functions(node, functions, BuiltinFunctions, 1)
    /\ walked' = walked \cup {"find_functions"}
    /\ UNCHANGED <<node, occurences, reordered, exceptTree>>

RECURSIVE Reordered(_)
\* the tree v with the fields of every node and the items of every list in
\* reverse order: its walk visits the siblings of v in the opposite order
Reordered(v) ==
    IF v.t = "ast"
    THEN [v EXCEPT !.fields = [k \in 1..Len(v.fields) |->
             [name |-> v.fields[Len(v.fields) + 1 - k].name,
              val |-> Reordered(v.fields[Len(v.fields) + 1 - k].val)]]]
    ELSE IF v.t = "list"
    THEN [v EXCEPT !.items = [k \in 1..Len(v.items) |-> Reordered(v.items[Len(v.items) + 1 - k])]]
    ELSE v

\* find_occurences with the for loops of lines 42 and 45 running backwards
RunFindOccurencesReordered ==
    /\ "reordered" \notin walked
    /\ reordered' = find_occurences(Reordered(node), reordered, 1)
    /\ walked' = walked \cup {"reordered"}
    /\ UNCHANGED <<node, occurences, functions, exceptTree>>

NextTree == RunFindOccurences \/ RunFindFunctions \/ RunFindOccurencesReordered

SpecTree == InitTree /\ [][NextTree]_vars

CountOf(counts, key) == IF key \in DOMAIN counts THEN counts[key] ELSE 0

NumNamed(v, b) ==
    Len(SelectSeq(NodesOf(v), LAMBDA n :
        \/ n.kind = "Name" /\ FieldOf(n, "id").sval = b
        \/ n.kind = "Attribute" /\ FieldOf(n, "attr").sval = b))

\* C5: after find_functions on a tree within the depth ceiling, counts[b] is the
\* number of Name nodes with identifier b plus the number of Attribute nodes with
\* attribute name b anywhere in the tree, arguments of calls included.
C5_BuiltinCountsEveryOccurrence ==
    ("find_functions" \in walked /\ TreeDepth(node) <= DepthCeiling)
        => \A b \in BuiltinFunctions : CountOf(functions.counts, b) = NumNamed(node, b)

\* C6: after find_occurences from zero counters on a tree within the depth
\* ceiling, calls, assignments and attributes are the numbers of Call, Assign and
\* Attribute nodes of the tree; the tree of the example gives 1, 4 and 2.
C6_StructuralCountsExact ==
    ("find_occurences" \in walked /\ TreeDepth(node) <= DepthCeiling)
        => /\ occurences.counts = [calls |-> NumKind(node, "Call"),
                                   assignments |-> NumKind(node, "Assign"),
                                   attributes |-> NumKind(node, "Attribute")]
           /\ ~occurences.overflow
           /\ node = ast_parse(ExampleCode, "none").tree
                => occurences.counts = [calls |-> 1, assignments |-> 4, attributes |-> 2]

C6_Witness ==
    /\ "find_occurences" \in walked
    /\ node = ast_parse(ExampleCode, "none").tree
    /\ TreeDepth(node) <= DepthCeiling
    /\ occurences.counts.assignments = 4

\* C19: visiting the children of each node in a permuted order gives the same
\* calls, assignments and attributes counts as find_occurences' own order.
C19_OrderInvariant ==
    ({"find_occurences", "reordered"} \subseteq walked) => reordered.counts = occurences.counts

(***************************************************************************)
(* The records process_chunk is run on.                                    *)
(***************************************************************************)
HeaderId ==
    <<"a","3","f","5","c","2","d","4","e","6","b","7","a","8","c","9","d","0","e","1","f","2","a",
    "3","b","4","c","5","d","6","e","7","f","8","a","9","b","0","c","1">>

\* the record of the test of process_chunk
ExampleRecord ==
    HeaderId \o <<",","3","8",",","\"","a"," ","="," ","1"," ","+"," ","2",";"," ","b"," ","="," ","a"," ","*",
        " ","3",";"," ","c"," ","="," ","b",".","a","t","t","r",";"," ","d"," ","="," ","e",".","f","u",
        "n","c","(",")">>

\* a header and nothing after it
EmptyBodyRecord ==
    HeaderId \o <<",","0",",","\"">>

\* a notebook: a code cell with a magic line, and a markdown cell
NotebookRecord ==
    HeaderId \o <<",","2","0","0",",","\"","{","\"","\"","c","e","l","l","s","\"","\"",":"," ","[","{","\"",
        "\"","c","e","l","l","_","t","y","p","e","\"","\"",":"," ","\"","\"","c","o","d","e","\"","\"",
        ","," ","\"","\"","s","o","u","r","c","e","\"","\"",":"," ","[","\"","\"","x"," ","="," ","f",
        "(",")","\\","n","\"","\"",","," ","\"","\"","%","t","i","m","e","\\","n","\"","\"",","," ",
        "\"","\"","y",".","z","\"","\"","]","}",","," ","{","\"","\"","c","e","l","l","_","t","y","p",
        "e","\"","\"",":"," ","\"","\"","m","a","r","k","d","o","w","n","\"","\"",","," ","\"","\"","s",
        "o","u","r","c","e","\"","\"",":"," ","[","\"","\"","h","i","\"","\"","]","}","]","}">>

ChunkMenu == {
    ExampleRecord,
    EmptyBodyRecord,
    \* a body that is not Python 3
    HeaderId \o <<",","1","0",",","\"","p","r","i","n","t"," ","\"","\"","h","i","\"","\"">>,
    \* a body cut after the colon of a def
    HeaderId \o <<",","8",",","\"","d","e","f"," ","f","(",")",":">>,
    \* no header
    <<"x"," ","="," ","l","e","n","(","y",")">>,
    \* an identifier of 39 characters
    <<"a","3","f","5","c","2","d","4","e","6","b","7","a","8","c","9","d","0","e","1","f","2","a",
        "3","b","4","c","5","d","6","e","7","f","8","a","9","b","0","c",",","5",",","\"","x"," ","=",
        " ","1">>,
    \* one of the identifiers cleanup_extracted_code omits
    <<"d","8","5","6","2","6","9","6","4","c","4","9","9","1","f","6","3","f","8","4","1","a","f",
        "e","6","a","2","8","5","6","4","5","5","9","f","8","c","4","e","5",",","1","2",",","\"","x",
        " ","="," ","y",".","z","(",")">>,
    \* doubled quotes, as the dump escapes them
    HeaderId \o <<",","1","4",",","\"","x"," ","="," ","f","(","\"","\"","a","\"","\"",")",".","b","\n">>,
    \* a merge conflict
    HeaderId \o <<",","6","0",",","\"","a"," ","="," ","1","\n","<","<","<","<","<","<","<"," ","H","E","A","D",
        "\n","b"," ","="," ","f","(",")","\n","=","=","=","=","=","=","=","\n","c"," ","="," ","g",".",
        "h","\n",">",">",">",">",">",">",">"," ","b","r","\n","d"," ","="," ","2">>,
    NotebookRecord,
    \* a notebook whose second code cell has no source
    HeaderId \o <<",","2","0","0",",","\"","{","\"","\"","c","e","l","l","s","\"","\"",":"," ","[","{","\"",
        "\"","c","e","l","l","_","t","y","p","e","\"","\"",":"," ","\"","\"","c","o","d","e","\"","\"",
        ","," ","\"","\"","s","o","u","r","c","e","\"","\"",":"," ","[","\"","\"","x"," ","="," ","f",
        "(",")","\"","\"","]","}",","," ","{","\"","\"","c","e","l","l","_","t","y","p","e","\"","\"",
        ":"," ","\"","\"","c","o","d","e","\"","\"","}","]","}">>,
    \* a notebook cut in the middle of a string
    HeaderId \o <<",","2","0","0",",","\"","{","\"","\"","c","e","l","l","s","\"","\"",":"," ","[","{","\"",
        "\"","c","e","l","l","_","t","y","p","e","\"","\"",":"," ","\"","\"","m","a","r","k","d","o",
        "w","n","\"","\"",","," ","\"","\"","s","o","u","r","c","e","\"","\"",":"," ","[","\"","\"",
        "x">>,
    \* builtin names as the function and as arguments of calls
    HeaderId \o <<",","2","2",",","\"","p","r","i","n","t","(","l","e","n","(","x",")",","," ","k","e","y","=",
        "m","a","x",")">>,
    \* a tree deeper than DepthCeiling
    HeaderId \o <<",","3","6",",","\"","i","f"," ","l","e","n",":","\n"," "," ","m","a","x"," ","="," ","p","r",
        "i","n","t",".","x","(","y","=","l","e","n",".","l","e","n",")">>,
    \* an attribute chain deeper than DepthCeiling in both walks, and a statement after it
    HeaderId \o <<",","2","3",",","\"","a",".","b",".","c",".","d",".","e",".","f",".","l","e","n","\n",
        "x"," ","="," ","l","e","n">>,
    \* the header twice
    HeaderId \o <<",","3",",","\"","x"," ","="," ","1","\n","a","3","f","5","c","2","d","4","e","6","b","7","a",
        "8","c","9","d","0","e","1","f","2","a","3","b","4","c","5","d","6","e","7","f","8","a","9","b",
        "0","c","1",",","3",",","\"","y"," ","="," ","x",".","z">>,
    \* text before the header
    <<"z"," ","="," ","1","\n","a","3","f","5","c","2","d","4","e","6","b","7","a","8","c","9","d",
        "0","e","1","f","2","a","3","b","4","c","5","d","6","e","7","f","8","a","9","b","0","c","1",",",
        "3",",","\"","y"," ","="," ","m","a","x">>
}

InitChunk ==
    /\ code_chunk \in ChunkMenu
    /\ fault \in {"none"} \cup ParseFaults
    /\ processed_by = "none"
    /\ cleaned_code = <<>>
    /\ code_tree = NoTree
    /\ chunk_result = [out |-> "pending"]
    /\ IdleTree
    /\ IdleLib
    /\ IdleRun
    /\ IdleText

\* metadata_parser.process_chunk(code_chunk)
MetadataProcessChunk ==
    /\ processed_by = "none"
    /\ processed_by' = "metadata_parser"
    /\ cleaned_code' = ChunkText(code_chunk).cleaned_code
    /\ code_tree' = ChunkTree(ChunkText(code_chunk), fault)
    /\ chunk_result' = metadata_process_chunk(code_chunk, fault)
    /\ UNCHANGED <<code_chunk, fault, exceptChunk>>

\* functions_parser.process_chunk(code_chunk)
FunctionsProcessChunk ==
    /\ processed_by = "none"
    /\ processed_by' = "functions_parser"
    /\ cleaned_code' = ChunkText(code_chunk).cleaned_code
    /\ code_tree' = ChunkTree(ChunkText(code_chunk), fault)
    /\ chunk_result' = functions_process_chunk(code_chunk, fault)
    /\ UNCHANGED <<code_chunk, fault, exceptChunk>>

NextChunk == MetadataProcessChunk \/ FunctionsProcessChunk

SpecChunk == InitChunk /\ [][NextChunk]_vars

\* the record has a header, and the identifier in it
HasHeader(chunk) == HeaderSearch(chunk) # <<>>

HeaderIdOf(chunk) == SubSeq(HeaderSearch(chunk), 1, IdLen)

\* C3: for every record with a header, whatever its body, process_chunk of the
\* structural and of the builtin pipeline returns one CountRecord with the
\* identifier of the header; for a body that does not parse, its counters are zero.
C3_OneRecordPerHeader ==
    (processed_by # "none" /\ HasHeader(code_chunk))
        => /\ chunk_result.out = "record"
           /\ chunk_result.chunk_id = HeaderIdOf(code_chunk)
           /\ ast_parse(cleaned_code, fault).exc # "none"
                => IF processed_by = "metadata_parser"
                   THEN /\ chunk_result.calls = 0
                        /\ chunk_result.assignments = 0
                        /\ chunk_result.attributes = 0
                   ELSE chunk_result.counts = <<>>

RECURSIVE VisitsOf(_, _), FunctionVisitsOf(_, _)
\* the calls find_occurences makes on the tree v when no ceiling stops it, in the
\* order it makes them, each with the node it is called on and its nesting depth
VisitsOf(v, depth) ==
    <<[node |-> v, depth |-> depth]>>
        \o Flatten([k \in 1..Len(Children(v)) |-> VisitsOf(Children(v)[k], depth + 1)])

\* and the calls find_functions makes
FunctionVisitsOf(v, depth) ==
    <<[node |-> v, depth |-> depth]>>
        \o Flatten([k \in 1..Len(FunctionChildren(v)) |->
                FunctionVisitsOf(FunctionChildren(v)[k], depth + 1)])

Overflows(visits) == \E k \in 1..Len(visits) : visits[k].depth > DepthCeiling

\* the calls made before the first one beyond the ceiling
BeforeOverflow(visits) ==
    IF ~Overflows(visits) THEN visits
    ELSE SubSeq(visits, 1,
             (CHOOSE k \in 1..Len(visits) :
                 /\ visits[k].depth > DepthCeiling
                 /\ \A j \in 1..(k - 1) : visits[j].depth <= DepthCeiling) - 1)

KindIn(visits, kind) ==
    Len(SelectSeq(visits, LAMBDA c : c.node.t = "ast" /\ c.node.kind = kind))

NamedIn(visits, b) ==
    Len(SelectSeq(visits, LAMBDA c :
        \/ c.node.kind = "Name" /\ FieldOf(c.node, "id").sval = b
        \/ c.node.kind = "Attribute" /\ FieldOf(c.node, "attr").sval = b))

\* the builtin counter: find_functions raises through every frame and process_chunk
\* catches, so the counts are those made before the overflow
BuiltinOverflowStopsCounting ==
    (processed_by = "functions_parser" /\ code_tree.exc = "none"
            /\ Overflows(FunctionVisitsOf(code_tree.tree, 1)))
        => /\ chunk_result.out = "record"
           /\ chunk_result.chunk_id = HeaderIdOf(code_chunk)
           /\ \A b \in BuiltinFunctions :
                 CountOf(chunk_result.counts, b)
                     = NamedIn(BeforeOverflow(FunctionVisitsOf(code_tree.tree, 1)), b)

\* the structural counter
StructuralOverflowStopsCounting ==
    (processed_by = "metadata_parser" /\ code_tree.exc = "none"
            /\ Overflows(VisitsOf(code_tree.tree, 1)))
        => /\ chunk_result.out = "record"
           /\ chunk_result.chunk_id = HeaderIdOf(code_chunk)
           /\ chunk_result.calls = KindIn(BeforeOverflow(VisitsOf(code_tree.tree, 1)), "Call")
           /\ chunk_result.assignments
                 = KindIn(BeforeOverflow(VisitsOf(code_tree.tree, 1)), "Assign")
           /\ chunk_result.attributes
                 = KindIn(BeforeOverflow(VisitsOf(code_tree.tree, 1)), "Attribute")

\* C20: when the walk of a record's tree goes beyond the depth ceiling, in the
\* structural and in the builtin counter alike, process_chunk still returns the
\* CountRecord of the record, with the identifier of its header and exactly the
\* counts made before the overflow: no node visited after it is counted.
C20_OverflowStopsCounting ==
    StructuralOverflowStopsCounting /\ BuiltinOverflowStopsCounting

\* C4: parse_to_ast never raises: when the parse fails (syntax error, memory
\* exhaustion, recursion overflow, any other exception) it returns the tree of the
\* empty document, otherwise the tree of the text, so the counters of process_chunk
\* always get a Module tree.
C4_ParseNeverRaises ==
    (processed_by # "none" /\ chunk_result.out # "empty")
        => /\ code_tree.exc = "none"
           /\ chunk_result.out = "record"
           /\ code_tree.tree.kind = "Module"
           /\ code_tree.tree = IF ast_parse(cleaned_code, fault).exc # "none" THEN EmptyTree
                               ELSE ast_parse(cleaned_code, "none").tree

C4_Witness ==
    /\ processed_by # "none"
    /\ code_chunk = ExampleRecord
    /\ fault = "RecursionError"
    /\ code_tree = [exc |-> "none", tree |-> EmptyTree]
    /\ chunk_result.out = "record"

\* C7: the structural process_chunk, on a record with a header and a body, returns a
\* CountRecord with the identifier of the header, with the length of the text handed
\* to parse_to_ast as size (not the size the header declares) and with the notebook
\* flag set exactly when the cleaned text was classified as a notebook; the record of
\* the example gives calls 1, assignments 4, attributes 2, size 46, flag false.
C7_StructuralRecordFields ==
    (/\ processed_by = "metadata_parser"
     /\ HasHeader(code_chunk)
     /\ extract_code(code_chunk).code # <<>>)
        => /\ chunk_result.out = "record"
           /\ chunk_result.chunk_id = HeaderIdOf(code_chunk)
           /\ chunk_result.size = Len(cleaned_code)
           /\ chunk_result.is_ipynb
                = is_ipynb(cleanup_extracted_code(extract_code(code_chunk).code,
                                                  HeaderIdOf(code_chunk)))
           /\ (code_chunk = ExampleRecord /\ fault = "none")
                => chunk_result = [out |-> "record", chunk_id |-> HeaderId, calls |-> 1,
                                   assignments |-> 4, attributes |-> 2, size |-> 46,
                                   is_ipynb |-> FALSE]

C7_Witness ==
    /\ processed_by = "metadata_parser"
    /\ code_chunk = ExampleRecord
    /\ fault = "none"
    /\ chunk_result.out = "record"
    /\ chunk_result.size = 46
    /\ Len(cleaned_code) = 46

(***************************************************************************)
(* The library dictionary and the records of the library-usage counter.    *)
(***************************************************************************)
\* A cut of standard_library_api_dict.pickle: library -> component type -> names.
\* In the function buckets of os and math one name begins with another.
LibraryDict ==
    (<<"o","s">> :>
        [function |-> <<<<"g","e","t","c","w","d">>, <<"g","e","t","c","w","d","b">>, <<"s","y","s","t","e","m">>>>,
         method |-> <<>>,
         class |-> <<>>,
         exception |-> <<>>,
         attribute |-> <<<<"n","a","m","e">>>>])
    @@
    (<<"m","a","t","h">> :>
        [function |-> <<<<"l","o","g">>, <<"l","o","g","1","0">>, <<"s","q","r","t">>>>,
         method |-> <<>>,
         class |-> <<>>,
         exception |-> <<>>,
         attribute |-> <<>>])
    @@
    (<<"s","y","s">> :>
        [function |-> <<<<"e","x","i","t">>>>,
         method |-> <<>>,
         class |-> <<>>,
         exception |-> <<>>,
         attribute |-> <<<<"p","l","a","t","f","o","r","m">>>>])
    @@
    (<<"f","u","n","c","t","o","o","l","s">> :>
        [function |-> <<<<"r","e","d","u","c","e">>>>,
         method |-> <<>>,
         class |-> <<>>,
         exception |-> <<>>,
         attribute |-> <<>>])

\* <id>,0," before a snippet
SnippetHeader == HeaderId \o <<",","0",",","\"">>

\* the first example of the specification
MathRecord ==
    SnippetHeader \o <<"i","m","p","o","r","t"," ","m","a","t","h","\n","m","a","t","h",".","s","q","r","t","(","1",
        "6",")">>

\* the second: a module under an alias
AliasRecord ==
    SnippetHeader \o <<"i","m","p","o","r","t"," ","s","y","s"," ","a","s"," ","s","y","s","t","e","m","\n","s","y",
        "s","t","e","m",".","e","x","i","t","(","0",")">>

\* a wildcard from-import and a bare call
WildcardRecord ==
    SnippetHeader \o <<"f","r","o","m"," ","o","s"," ","i","m","p","o","r","t"," ","*","\n","g","e","t","c","w","d",
        "(",")">>

\* a from-import of a name and one call of it
ReduceRecord ==
    SnippetHeader \o <<"f","r","o","m"," ","f","u","n","c","t","o","o","l","s"," ","i","m","p","o",
        "r","t"," ","r","e","d","u","c","e","\n","r","e","d","u","c","e","(","f",","," ","x","s",
        ")">>

\* a from-imported name after a dot and inside longer names
FragmentRecord ==
    SnippetHeader \o <<"f","r","o","m"," ","o","s"," ","i","m","p","o","r","t"," ","g","e","t","c",
        "w","d","\n","m","y","g","e","t","c","w","d"," ","="," ","g","e","t","c","w","d","2","\n",
        "x",".","g","e","t","c","w","d","\n","y"," ","="," ","g","e","t","c","w","d","_">>

\* a record under the first of the identifiers cleanup_extracted_code omits
BlocklistedSnippet ==
    OmittedId1 \o <<",","0",",","\"","i","m","p","o","r","t"," ","o","s","\n","o","s",".","g","e",
        "t","c","w","d","(",")">>

\* a merge conflict: the first variant is dropped by remove_merge_conflicts
ConflictSnippet ==
    SnippetHeader \o <<"i","m","p","o","r","t"," ","o","s","\n","<","<","<","<","<","<","<"," ","H",
        "E","A","D","\n","o","s",".","g","e","t","c","w","d","(",")","\n","=","=","=","=","=","=",
        "=","\n","o","s",".","s","y","s","t","e","m","(","x",")","\n",">",">",">",">",">",">",">",
        " ","b">>

\* a notebook: a code cell, and a markdown cell that names a function
NotebookSnippet ==
    SnippetHeader \o <<"{","\"","\"","c","e","l","l","s","\"","\"",":"," ","[","{","\"","\"","c",
        "e","l","l","_","t","y","p","e","\"","\"",":"," ","\"","\"","c","o","d","e","\"","\"",",",
        " ","\"","\"","s","o","u","r","c","e","\"","\"",":"," ","[","\"","\"","i","m","p","o","r",
        "t"," ","o","s","\\","n","\"","\"",","," ","\"","\"","o","s",".","g","e","t","c","w","d",
        "(",")","\"","\"","]","}",","," ","{","\"","\"","c","e","l","l","_","t","y","p","e","\"",
        "\"",":"," ","\"","\"","m","a","r","k","d","o","w","n","\"","\"",","," ","\"","\"","s","o",
        "u","r","c","e","\"","\"",":"," ","[","\"","\"","o","s",".","s","y","s","t","e","m","\"",
        "\"","]","}","]","}">>

LibraryMenu == {
    BlocklistedSnippet,
    ConflictSnippet,
    NotebookSnippet,
    MathRecord,
    AliasRecord,
    WildcardRecord,
    ReduceRecord,
    FragmentRecord,
    \* a from-import, then a plain import of the module
    SnippetHeader \o <<"f","r","o","m"," ","o","s"," ","i","m","p","o","r","t"," ","g","e","t","c","w","d","\n","i",
        "m","p","o","r","t"," ","o","s","\n","o","s",".","g","e","t","c","w","d","(",")">>,
    \* a plain import, then a from-import of the module
    SnippetHeader \o <<"i","m","p","o","r","t"," ","o","s","\n","f","r","o","m"," ","o","s"," ","i","m","p","o","r",
        "t"," ","g","e","t","c","w","d","\n","g","e","t","c","w","d","(",")","\n","o","s",".","g","e",
        "t","c","w","d","(",")">>,
    \* a function of the library reached through another name
    SnippetHeader \o <<"i","m","p","o","r","t"," ","o","s","\n","p","o","s",".","g","e","t","c","w","d","(",")">>,
    \* a function whose name starts with the name of another
    SnippetHeader \o <<"i","m","p","o","r","t"," ","m","a","t","h","\n","m","a","t","h",".","l","o","g","1","0","(",
        "2",")">>,
    \* the same, where the shorter name comes first in the bucket
    SnippetHeader \o <<"i","m","p","o","r","t"," ","o","s","\n","o","s",".","g","e","t","c","w","d","b","(",")">>,
    \* an attribute reached through the alias and through another name
    SnippetHeader \o <<"i","m","p","o","r","t"," ","o","s","\n","x",".","n","a","m","e","\n","o","s",".","n","a","m",
        "e">>,
    \* a from-import under an alias
    SnippetHeader \o <<"f","r","o","m"," ","o","s"," ","i","m","p","o","r","t"," ","g","e","t","c","w","d"," ","a",
        "s"," ","g","\n","g","(",")">>,
    \* a module that is not in the dictionary
    SnippetHeader \o <<"i","m","p","o","r","t"," ","j","s","o","n","\n","j","s","o","n",".","l","o","a","d","s","(",
        "s",")">>,
    \* no import
    SnippetHeader \o <<"o","s",".","g","e","t","c","w","d","(",")">>,
    \* text that does not parse
    SnippetHeader \o <<"i","m","p","o","r","t"," ","o","s","\n","p","r","i","n","t"," ","\"","\"","x","\"","\"","\n",
        "o","s",".","g","e","t","c","w","d","(",")">>,
    \* an import inside a function
    SnippetHeader \o <<"d","e","f"," ","f","(",")",":","\n"," "," ","i","m","p","o","r","t"," ","o","s","\n","o","s",
        ".","g","e","t","c","w","d","(",")">>,
    \* two modules in one import
    SnippetHeader \o <<"i","m","p","o","r","t"," ","o","s",","," ","s","y","s","\n","o","s",".","s","y","s","t","e",
        "m","(","s","y","s",".","p","l","a","t","f","o","r","m",")">>,
    \* two names in one from-import
    SnippetHeader \o <<"f","r","o","m"," ","o","s"," ","i","m","p","o","r","t"," ","g","e","t","c","w","d",","," ",
        "n","a","m","e","\n","n","a","m","e"," ","="," ","g","e","t","c","w","d","(",")">>,
    \* a wildcard from-import, then a plain import
    SnippetHeader \o <<"f","r","o","m"," ","m","a","t","h"," ","i","m","p","o","r","t"," ","*","\n","i","m","p","o",
        "r","t"," ","m","a","t","h","\n","m","a","t","h",".","s","q","r","t","(","2",")">>,
    \* an alias, and the module name used without it
    SnippetHeader \o <<"i","m","p","o","r","t"," ","o","s"," ","a","s"," ","o","\n","o",".","g","e","t","c","w","d",
        "(",")",";"," ","o","s",".","g","e","t","c","w","d","(",")">>,
    \* doubled quotes, as the dump escapes them
    SnippetHeader \o <<"i","m","p","o","r","t"," ","o","s","\n","o","s",".","s","y","s","t","e","m","(","\"","\"",
        "l","s","\"","\"",")">>,
    \* no header
    <<"i","m","p","o","r","t"," ","o","s","\n","o","s",".","g","e","t","c","w","d","(",")">>,
    \* a from-import with a wildcard among names of two from-imports
    SnippetHeader \o <<"f","r","o","m"," ","s","y","s"," ","i","m","p","o","r","t"," ","e","x","i","t","\n","f","r",
        "o","m"," ","s","y","s"," ","i","m","p","o","r","t"," ","*","\n","e","x","i","t","(","p","l",
        "a","t","f","o","r","m",")">>,
    \* a from-imported name in a string and in a comment
    SnippetHeader \o <<"f","r","o","m"," ","m","a","t","h"," ","i","m","p","o","r","t"," ","s","q","r","t","\n","s",
        " ","="," ","\"","\"","s","q","r","t","\"","\""," "," ","#"," ","s","q","r","t","\n","x",".",
        "s","q","r","t">>
}

\* the snippet of a record, as count_library_components reads it
SnippetOf(chunk) == IF HasHeader(chunk) THEN SnippetText(chunk) ELSE chunk

InitLib ==
    /\ library_dict = LibraryDict
    /\ library_chunk \in LibraryMenu
    /\ library_done = {}
    /\ import_statements = <<>>
    /\ components_to_search = <<>>
    /\ library_component_counts = [out |-> "pending"]
    /\ IdleTree
    /\ IdleChunk
    /\ IdleRun
    /\ IdleText

\* extract_imports on the snippet of the record
ExtractImports ==
    /\ "extract_imports" \notin library_done
    /\ import_statements' = extract_imports(SnippetOf(library_chunk))
    /\ library_done' = library_done \cup {"extract_imports"}
    /\ UNCHANGED <<library_dict, library_chunk, components_to_search,
                   library_component_counts, exceptLib>>

\* get_components_to_search on the table extract_imports returned
GetComponentsToSearch ==
    /\ "extract_imports" \in library_done
    /\ "get_components_to_search" \notin library_done
    /\ components_to_search' = get_components_to_search(import_statements, library_dict)
    /\ library_dict' = DictionaryAfter(import_statements, library_dict)
    /\ library_done' = library_done \cup {"get_components_to_search"}
    /\ UNCHANGED <<library_chunk, import_statements, library_component_counts, exceptLib>>

\* count_library_components(code_chunk, library_dict)
CountLibraryComponents ==
    /\ "count_library_components" \notin library_done
    /\ library_component_counts' = count_library_components(library_chunk, library_dict)
    /\ library_dict' = DictionaryAfterCount(library_chunk, library_dict)
    /\ library_done' = library_done \cup {"count_library_components"}
    /\ UNCHANGED <<library_chunk, import_statements, components_to_search, exceptLib>>

NextLib == ExtractImports \/ GetComponentsToSearch \/ CountLibraryComponents

SpecLib == InitLib /\ [][NextLib]_vars

FromImportKeys == {FromImport(component) : component \in ComponentTypes}

NamesUnder(entry, key) == IF key \in DOMAIN entry THEN Range(entry[key]) ELSE {}

\* C8: get_components_to_search gives, for a library of the dictionary that is
\* imported: after a wildcard from-import every bucket of the library under
\* from_import_<type>; after a from-import of names, under from_import_<type> the
\* imported names that are in bucket <type>, and nothing else.  A module that is not
\* imported or not in the dictionary has no entry.
C8_ComponentsToSearch ==
    "get_components_to_search" \in library_done
        => /\ \A pair \in DOMAIN components_to_search :
                /\ pair[1] \in DOMAIN library_dict \cap DOMAIN import_statements
                /\ pair[2] = import_statements[pair[1]].alias
           /\ \A lib \in DOMAIN library_dict \cap DOMAIN import_statements :
                LET names == Range(import_statements[lib].names)
                    pair == <<lib, import_statements[lib].alias>>
                IN  /\ pair \in DOMAIN components_to_search
                    /\ <<"*">> \in names
                         => /\ DOMAIN components_to_search[pair] = FromImportKeys
                            /\ \A component \in ComponentTypes :
                                  components_to_search[pair][FromImport(component)]
                                      = library_dict[lib][component]
                    /\ (names # {} /\ <<"*">> \notin names)
                         => /\ DOMAIN components_to_search[pair] \subseteq FromImportKeys
                            /\ \A component \in ComponentTypes :
                                  NamesUnder(components_to_search[pair], FromImport(component))
                                      = names \cap Range(library_dict[lib][component])

C8_Witness ==
    /\ "get_components_to_search" \in library_done
    /\ library_chunk = WildcardRecord
    /\ <<"*">> \in Range(import_statements[<<"o","s">>].names)
    /\ components_to_search[<<<<"o","s">>, <<"o","s">>>>]["from_import_function"]
           = LibraryDict[<<"o","s">>]["function"]

\* the statements of the snippet of the record, <<>> when it does not parse
SnippetBody(chunk) ==
    IF ast_parse(SnippetOf(chunk), "none").exc # "none" THEN <<>>
    ELSE FieldOf(ast_parse(SnippetOf(chunk), "none").tree, "body").items

\* the snippet has, among its statements, from lib import ...
FromImported(body, lib) ==
    \E k \in 1..Len(body) :
        body[k].kind = "ImportFrom" /\ FieldOf(body[k], "module").sval = lib

\* the local names that the statements import lib [as name] of the snippet bind
PlainAliases(body, lib) ==
    {AliasName(alias) :
        alias \in {a \in Range(Flatten([k \in 1..Len(body) |->
                                  IF body[k].kind = "Import"
                                  THEN FieldOf(body[k], "names").items ELSE <<>>])) :
                      FieldOf(a, "name").sval = lib}}

\* C9: for a library the snippet from-imports, by names or by wildcard, every count
\* of count_library_components for it is under a from_import_<type> key and none
\* under a plain <type> key, also when the snippet imports the module plainly as
\* well; after from os import *, a bare call of getcwd is counted under
\* from_import_function of os.
C9_FromImportKeysOnly ==
    ("count_library_components" \in library_done /\ library_component_counts.out = "record")
        => /\ \A lib \in DOMAIN library_component_counts.counts :
                FromImported(SnippetBody(library_chunk), lib)
                    => DOMAIN library_component_counts.counts[lib] \subseteq FromImportKeys
           /\ library_chunk = WildcardRecord
                => library_component_counts.counts
                    = (<<"o","s">> :> ("from_import_function" :> (<<"g","e","t","c","w","d">> :> 1)))

CountIn(counts, lib, component, name) ==
    IF lib \in DOMAIN counts /\ component \in DOMAIN counts[lib]
       /\ name \in DOMAIN counts[lib][component]
    THEN counts[lib][component][name] ELSE 0

\* the occurrences in text of the name pat, as a name of its own: no word character
\* on either side of it
Occurrences(text, pat) ==
    Cardinality({j \in 1..Len(text) :
        /\ StartsWithAt(text, j, pat)
        /\ ~IsWordAt(text, j - 1)
        /\ ~IsWordAt(text, j + Len(pat))})

\* the occurrences in text of .name, whatever comes before the dot
DotOccurrences(text, name) ==
    Cardinality({j \in 1..Len(text) :
        StartsWithAt(text, j, <<".">> \o name) /\ ~IsWordAt(text, j + 1 + Len(name))})

\* C10: for a library of the dictionary that the snippet imports plainly, under the
\* local name A, a function or exception n is counted once for each occurrence of
\* A.n and never for n reached through another name, and a method, class or
\* attribute n once for each occurrence of .n; import math with math.sqrt(16)
\* gives sqrt 1 under function of math, import sys as system with system.exit(0)
\* gives exit 1 under function of sys.
C10_PlainImportCounts ==
    ("count_library_components" \in library_done /\ library_component_counts.out = "record")
        => /\ \A lib \in DOMAIN library_dict :
                \A A \in PlainAliases(SnippetBody(library_chunk), lib) :
                    (/\ PlainAliases(SnippetBody(library_chunk), lib) = {A}
                     /\ ~FromImported(SnippetBody(library_chunk), lib))
                        => \A component \in ComponentTypes :
                             \A name \in Range(library_dict[lib][component]) :
                                CountIn(library_component_counts.counts, lib, component, name)
                                    = IF component \in {"function", "exception"}
                                      THEN Occurrences(SnippetOf(library_chunk),
                                                       A \o <<".">> \o name)
                                      ELSE DotOccurrences(SnippetOf(library_chunk), name)
           /\ library_chunk = MathRecord
                => library_component_counts.counts
                    = (<<"m","a","t","h">> :> ("function" :> (<<"s","q","r","t">> :> 1)))
           /\ library_chunk = AliasRecord
                => CountIn(library_component_counts.counts, <<"s","y","s">>, "function",
                           <<"e","x","i","t">>) = 1

\* the occurrences in text of name as a whole word that no dot comes before
FreeOccurrences(text, name) ==
    Cardinality({j \in 1..Len(text) :
        /\ StartsWithAt(text, j, name)
        /\ ~IsWordAt(text, j - 1)
        /\ At(text, j - 1) # "."
        /\ ~IsWordAt(text, j + Len(name))})

\* the three steps of the library part have run on a record with a header
LibraryCounted ==
    /\ library_done = {"extract_imports", "get_components_to_search", "count_library_components"}
    /\ library_component_counts.out = "record"

\* C11: for a component n that get_components_to_search put under a from_import_
\* key, the count of count_library_components is the number of occurrences of n in
\* the whole text of the snippet as a whole word with no dot before it: the import
\* statement, strings and comments count, .n and n inside a longer name do not;
\* from functools import reduce and one call of reduce give reduce 2.
C11_FromImportWholeWords ==
    LibraryCounted
        => /\ \A pair \in DOMAIN components_to_search :
                \A key \in FromImportKeys \cap DOMAIN components_to_search[pair] :
                    \A n \in Range(components_to_search[pair][key]) :
                        CountIn(library_component_counts.counts, pair[1], key, n)
                            = FreeOccurrences(SnippetOf(library_chunk), n)
           /\ library_chunk = ReduceRecord
                => library_component_counts.counts
                    = (<<"f","u","n","c","t","o","o","l","s">>
                          :> ("from_import_function" :> (<<"r","e","d","u","c","e">> :> 2)))

C11_Witness ==
    /\ LibraryCounted
    /\ library_chunk = FragmentRecord
    /\ <<"g","e","t","c","w","d">>
          \in Range(components_to_search[<<<<"o","s">>, <<"o","s">>>>]["from_import_function"])
    /\ library_component_counts.counts[<<"o","s">>]["from_import_function"]
          = (<<"g","e","t","c","w","d">> :> 1)

\* the modules the top-level statements of body import plainly
PlainModules(body) ==
    {FieldOf(a, "name").sval :
        a \in Range(Flatten([k \in 1..Len(body) |->
                       IF body[k].kind = "Import" THEN FieldOf(body[k], "names").items
                       ELSE <<>>]))}

\* the modules the top-level statements of body import names from
FromModules(body) ==
    {FieldOf(body[k], "module").sval : k \in {j \in 1..Len(body) : body[j].kind = "ImportFrom"}}

\* the names the top-level from-imports of lib bring in, in the order of the text
FromNamesOf(body, lib) ==
    Flatten([k \in 1..Len(body) |->
        IF body[k].kind = "ImportFrom" /\ FieldOf(body[k], "module").sval = lib
        THEN [j \in 1..Len(FieldOf(body[k], "names").items) |->
                 AliasName(FieldOf(body[k], "names").items[j])]
        ELSE <<>>])

\* C12: the table of extract_imports has the modules of the top-level import
\* statements of the snippet and no other: a from-imported module maps to its own
\* name and the list of the names of all its top-level from-imports, none lost
\* whatever the order and mix of the statements; a module imported only plainly maps
\* to its alias, or its name, and the empty list; text that does not parse gives
\* the empty table.
C12_ImportTable ==
    "extract_imports" \in library_done
        => /\ DOMAIN import_statements
                = PlainModules(SnippetBody(library_chunk)) \cup FromModules(SnippetBody(library_chunk))
           /\ \A m \in DOMAIN import_statements :
                IF m \in FromModules(SnippetBody(library_chunk))
                THEN import_statements[m]
                        = [alias |-> m, names |-> FromNamesOf(SnippetBody(library_chunk), m)]
                ELSE /\ import_statements[m].names = <<>>
                     /\ import_statements[m].alias \in PlainAliases(SnippetBody(library_chunk), m)

\* the library counts of a text: what count_library_components counts once it has
\* the text of the snippet
CountsOfText(text, library) ==
    LibraryCounts(text, get_components_to_search(extract_imports(text), library))

\* C13: the library counts of a record are counts over the normalized snippet the
\* structural and builtin process_chunk work on: the text after the suppression of
\* the known-bad identifiers, the removal of conflict regions and the extraction of
\* the code cells of a notebook.  A blocklisted record has no library counts.
C13_LibraryCountsNormalized ==
    ("count_library_components" \in library_done /\ library_component_counts.out = "record")
        => /\ ~ChunkText(library_chunk).empty
                => library_component_counts.counts
                      = CountsOfText(ChunkText(library_chunk).cleaned_code, library_dict)
           /\ library_component_counts.chunk_id \in OmittedIds
                => library_component_counts.counts = <<>>

BoundaryEndAt(text, j) ==
    IF StartsWithAt(text, j, <<"\"", ",", "f", "a", "l", "s", "e", ",">>)
       /\ DigitsRun(text, j + 8) >= 1
    THEN j + 8 + DigitsRun(text, j + 8) ELSE 0

RECURSIVE SplitFrom(_, _)
\* re.split(r'",false,\d+', text) from i on
SplitFrom(text, i) ==
    LET hits == {j \in i..Len(text) : BoundaryEndAt(text, j) > 0}
    IN  IF hits = {} THEN <<SubSeq(text, i, Len(text))>>
        ELSE <<SubSeq(text, i, MinOf(hits) - 1)>>
             \o SplitFrom(text, BoundaryEndAt(text, MinOf(hits)))

\* the characters content[30:] leaves out
SkippedChars == 30

\* f.read().replace('\x00', '') and re.split on content[30:]; "NUL" stands for the
\* character \x00
SplitRecords(content) ==
    SplitFrom(SubSeq(Replace(content, <<"NUL">>, <<>>), SkippedChars + 1,
                     Len(Replace(content, <<"NUL">>, <<>>))), 1)

\* the function the tasks of the pool run on a record, by pipeline
Worker(module, chunk) ==
    IF module = "metadata_parser" THEN metadata_process_chunk(chunk, "none")
    ELSE IF module = "functions_parser" THEN functions_process_chunk(chunk, "none")
    ELSE count_library_components(chunk, LibraryDict)

\* str(text_file)[-7:-4]
FileSuffix(name) == SubSeq(name, Max2(Len(name) - 6, 1), Len(name) - 4)

\* the name main saves the results of a file under
OutputFilename(module, name) ==
    (IF module = "metadata_parser" THEN <<"m","e","t","a","d","a","t","a","_">>
     ELSE IF module = "functions_parser"
     THEN <<"b","u","i","l","t","i","n","_","c","o","u","n","t","s","_">>
     ELSE <<"l","i","b","r","a","r","y","_","c","o","u","n","t","s","_">>)
    \o FileSuffix(name) \o <<".","p","a","r","q","u","e","t">>

RECURSIVE SeqOf(_)
\* the elements of a finite set in some order
SeqOf(S) == IF S = {} THEN <<>> ELSE <<CHOOSE x \in S : TRUE>> \o SeqOf(S \ {CHOOSE x \in S : TRUE})

\* the rows save_function_counts_to_parquet makes of one result
LibraryRows(function_count) ==
    IF function_count.out # "record" THEN <<>>
    ELSE SeqOf({[chunk_id |-> function_count.chunk_id, library_name |-> row[1],
                 component_type |-> row[2], component |-> row[3],
                 count |-> function_count.counts[row[1]][row[2]][row[3]]] :
                row \in {r \in (DOMAIN function_count.counts) \X (ComponentTypes \cup FromImportKeys)
                               \X UNION {Range(LibraryDict[l][c]) :
                                            l \in DOMAIN LibraryDict, c \in ComponentTypes} :
                            /\ r[2] \in DOMAIN function_count.counts[r[1]]
                            /\ r[3] \in DOMAIN function_count.counts[r[1]][r[2]]}})

\* the rows of the data frame a save function writes: pd.DataFrame(counts) has a row
\* for each dict, the empty ones included; save_function_counts_to_parquet a row for
\* each count
RowsOf(module, counts) ==
    IF module = "std_library_parser"
    THEN Flatten([k \in 1..Len(counts) |-> LibraryRows(counts[k])])
    ELSE counts

\* df.to_parquet(full_path): a file of the same name is overwritten
SaveParquet(directory, name, rows) ==
    IF \E k \in 1..Len(directory) : directory[k].name = name
    THEN [k \in 1..Len(directory) |->
             IF directory[k].name = name THEN [name |-> name, rows |-> rows] ELSE directory[k]]
    ELSE Append(directory, [name |-> name, rows |-> rows])

\* the two concatenate_parquet_files: pd.concat of the files of the directory;
\* parsing_utils also makes chunk_id the index, a KeyError when no row has one
concatenate_parquet_files(module, directory) ==
    LET rows == Flatten([k \in 1..Len(directory) |-> directory[k].rows])
    IN  IF directory = <<>> THEN [out |-> "raised", exc |-> "ValueError"]
        ELSE IF module # "std_library_parser"
                /\ \A k \in 1..Len(rows) : rows[k].out # "record"
        THEN [out |-> "raised", exc |-> "KeyError"]
        ELSE [out |-> "saved", rows |-> rows]

(***************************************************************************)
(* The dump files of the runs.                                             *)
(***************************************************************************)
OtherId ==
    <<"b","4","e","6","d","3","c","5","f","7","a","8","b","9","c","0","d","1","e","2","f","3","a",
    "4","b","5","c","6","d","7","e","8","f","9","a","0","b","1","c","2">>

ThirdId ==
    <<"c","5","f","7","e","4","d","6","a","8","b","9","c","0","d","1","e","2","f","3","a","4","b",
    "5","c","6","d","7","e","8","f","9","a","0","b","1","c","2","d","3">>

\* the first line of a dump file: content[30:] starts after it
DumpHeader ==
    <<"i","d",",","s","i","z","e",",","c","o","n","t","e","n","t",",","b","i","n","a","r","y",",",
    "c","o","p","i","e","s","\n">>

\* two records
DumpOne ==
    [name |-> <<"d","_","0","0","1",".","t","x","t">>,
     readable |-> TRUE,
     content |-> DumpHeader
        \o HeaderId \o <<",","2","4",",","\"","i","m","p","o","r","t"," ","o","s","\n","x"," ","="," ","o","s",".","g","e","t","c","w","d","(",")","\"",",","f","a","l","s","e",",","1","\n">>
        \o OtherId \o <<",","1","2",",","\"","y",".","z"," ","="," ","l","e","n","(","y",")","\"",",","f","a","l","s","e",",","2","\n">>]

\* one record, under the identifier of the first record of DumpOne
DumpTwo ==
    [name |-> <<"d","_","0","0","2",".","t","x","t">>,
     readable |-> TRUE,
     content |-> DumpHeader
        \o HeaderId \o <<",","2","5",",","\"","i","m","p","o","r","t"," ","o","s","\n","p","r","i","n","t","(","o","s",".","n","a","m","e",")","\"",",","f","a","l","s","e",",","1","\n">>]

\* one record, under an identifier of its own
DumpThree ==
    [name |-> <<"d","_","0","0","3",".","t","x","t">>,
     readable |-> TRUE,
     content |-> DumpHeader
        \o ThirdId \o <<",","2","4",",","\"","i","m","p","o","r","t"," ","m","a","t","h","\n","m","a","t","h",".","s","q","r","t","(","4",")","\"",",","f","a","l","s","e",",","3","\n">>]

\* the record of DumpThree in a file whose name ends as the name of DumpOne does
DumpSameSuffix ==
    [name |-> <<"e","_","0","0","1",".","t","x","t">>,
     readable |-> TRUE,
     content |-> DumpThree.content]

\* a file of the directory that cannot be opened or decoded
DumpUnreadable ==
    [name |-> <<"d","_","0","0","4",".","t","x","t">>,
     readable |-> FALSE,
     content |-> <<>>]

RunMenu ==
    {<<DumpOne, DumpTwo>>, <<DumpOne, DumpThree>>, <<DumpThree>>, <<DumpOne, DumpSameSuffix>>,
     <<DumpThree, DumpUnreadable>>, <<DumpUnreadable, DumpThree>>}

Pipelines == {"metadata_parser", "functions_parser", "std_library_parser"}

\* os.cpu_count() at most
PoolSize == 2

\* the workers that raise in one run, at most
MaxFaults == 1

Init ==
    /\ pipeline \in Pipelines
    /\ text_files \in RunMenu
    /\ file_index = 1
    /\ pc = IF pipeline = "std_library_parser" THEN "start" ELSE "main"
    /\ code_chunks = <<>>
    /\ tasks = <<>>
    /\ function_counts = <<>>
    /\ faults = 0
    /\ parquet_files = <<>>
    /\ final_table = [out |-> "none"]
    /\ dictionary_readable \in (IF pipeline = "std_library_parser" THEN BOOLEAN ELSE {TRUE})
    /\ dictionary_loaded = FALSE
    /\ threadcount \in 1..PoolSize
    /\ finished = <<>>
    /\ IdleTree
    /\ IdleChunk
    /\ IdleLib
    /\ IdleText

\* main of std_library_parser before its loop: pickle.load of the library
\* dictionary; an exception of open or of pickle.load ends main
LoadDictionary ==
    /\ pc = "start"
    /\ dictionary_loaded' = dictionary_readable
    /\ pc' = IF dictionary_readable THEN "main" ELSE "aborted"
    /\ UNCHANGED <<dictionary_readable, threadcount, finished, pipeline, text_files, file_index,
                   code_chunks, tasks, function_counts, faults, parquet_files, final_table,
                   exceptRun>>

\* process_file on a file that open or f.read cannot read: the exception ends
\* process_file and main
OpenFails ==
    /\ pc = "main"
    /\ file_index <= Len(text_files)
    /\ ~text_files[file_index].readable
    /\ pc' = "aborted"
    /\ UNCHANGED <<dictionary_readable, dictionary_loaded, threadcount, finished, pipeline,
                   text_files, file_index, code_chunks, tasks, function_counts, faults,
                   parquet_files, final_table, exceptRun>>

\* process_file up to the list of apply_async calls: the file is read and split, the
\* pool is made and every record is submitted
SubmitFile ==
    /\ pc = "main"
    /\ file_index <= Len(text_files)
    /\ text_files[file_index].readable
    /\ code_chunks' = SplitRecords(text_files[file_index].content)
    /\ tasks' = [k \in 1..Len(SplitRecords(text_files[file_index].content)) |->
                    [state |-> "queued", result |-> [out |-> "pending"]]]
    /\ function_counts' = <<>>
    /\ finished' = <<>>
    /\ pc' = "pool"
    /\ UNCHANGED <<dictionary_readable, dictionary_loaded, threadcount, pipeline, text_files,
                   file_index, faults, parquet_files, final_table, exceptRun>>

\* a worker of the pool takes a submitted record
WorkerStart(k) ==
    /\ pc = "pool"
    /\ tasks[k].state = "queued"
    /\ Cardinality({j \in 1..Len(tasks) : tasks[j].state = "running"}) < threadcount
    /\ tasks' = [tasks EXCEPT ![k].state = "running"]
    /\ UNCHANGED <<dictionary_readable, dictionary_loaded, threadcount, finished, pipeline,
                   text_files, file_index, pc, code_chunks, function_counts, faults,
                   parquet_files, final_table, exceptRun>>

\* the worker returns what the function of the pipeline gives for the record
WorkerReturn(k) ==
    /\ pc = "pool"
    /\ tasks[k].state = "running"
    /\ tasks' = [tasks EXCEPT ![k] = [state |-> "done",
                                      result |-> Worker(pipeline, code_chunks[k])]]
    /\ finished' = Append(finished, k)
    /\ UNCHANGED <<dictionary_readable, dictionary_loaded, threadcount, pipeline, text_files,
                   file_index, pc, code_chunks, function_counts, faults, parquet_files,
                   final_table, exceptRun>>

\* the worker raises while it processes the record (out of memory, say): the pool
\* keeps the exception as the outcome of the task
WorkerRaise(k) ==
    /\ pc = "pool"
    /\ tasks[k].state = "running"
    /\ faults < MaxFaults
    /\ faults' = faults + 1
    /\ tasks' = [tasks EXCEPT ![k] = [state |-> "failed",
                                      result |-> [out |-> "raised", exc |-> "MemoryError"]]]
    /\ finished' = Append(finished, k)
    /\ UNCHANGED <<dictionary_readable, dictionary_loaded, threadcount, pipeline, text_files,
                   file_index, pc, code_chunks, function_counts, parquet_files, final_table,
                   exceptRun>>

\* GetResult when the results are taken as the workers end
GetResult_AsCompleted ==
    /\ pc = "pool"
    /\ Len(function_counts) < Len(finished)
    /\ IF tasks[finished[Len(function_counts) + 1]].state = "done"
       THEN /\ function_counts' = Append(function_counts,
                                         tasks[finished[Len(function_counts) + 1]].result)
            /\ pc' = "pool"
       ELSE /\ function_counts' = function_counts
            /\ pc' = "crashed"
    /\ UNCHANGED <<dictionary_readable, dictionary_loaded, threadcount, finished, pipeline,
                   text_files, file_index, code_chunks, tasks, faults, parquet_files,
                   final_table, exceptRun>>

\* result.get() on the next task, in the order of submission: it gives the result
\* of the task, or raises the exception of its worker again, which nothing in
\* process_file or main catches
GetResult ==
    /\ pc = "pool"
    /\ Len(function_counts) < Len(tasks)
    /\ tasks[Len(function_counts) + 1].state \in {"done", "failed"}
    /\ IF tasks[Len(function_counts) + 1].state = "done"
       THEN /\ function_counts' = Append(function_counts,
                                         tasks[Len(function_counts) + 1].result)
            /\ pc' = "pool"
       ELSE /\ function_counts' = function_counts
            /\ pc' = "crashed"
    /\ UNCHANGED <<dictionary_readable, dictionary_loaded, threadcount, finished, pipeline,
                   text_files, file_index, code_chunks, tasks, faults, parquet_files,
                   final_table, exceptRun>>

\* SaveFile when main does not wait for the results of the pool
SaveFile_BeforeResults ==
    /\ pc = "pool"
    /\ parquet_files' = SaveParquet(parquet_files,
                            OutputFilename(pipeline, text_files[file_index].name),
                            RowsOf(pipeline, function_counts))
    /\ file_index' = file_index + 1
    /\ pc' = "main"
    /\ UNCHANGED <<dictionary_readable, dictionary_loaded, threadcount, finished, pipeline,
                   text_files, code_chunks, tasks, function_counts, faults, final_table,
                   exceptRun>>

\* process_file returns; main saves the results under the name of the file's suffix
SaveFile ==
    /\ pc = "pool"
    /\ Len(function_counts) = Len(tasks)
    /\ parquet_files' = SaveParquet(parquet_files,
                            OutputFilename(pipeline, text_files[file_index].name),
                            RowsOf(pipeline, function_counts))
    /\ file_index' = file_index + 1
    /\ pc' = "main"
    /\ UNCHANGED <<dictionary_readable, dictionary_loaded, threadcount, finished, pipeline,
                   text_files, code_chunks, tasks, function_counts, faults, final_table,
                   exceptRun>>

\* after the last file: concatenate_parquet_files
Concatenate ==
    /\ pc = "main"
    /\ file_index > Len(text_files)
    /\ final_table' = concatenate_parquet_files(pipeline, parquet_files)
    /\ pc' = "done"
    /\ UNCHANGED <<dictionary_readable, dictionary_loaded, threadcount, finished, pipeline,
                   text_files, file_index, code_chunks, tasks, function_counts, faults,
                   parquet_files, exceptRun>>

Next ==
    \/ LoadDictionary
    \/ OpenFails
    \/ SubmitFile
    \/ \E k \in 1..Len(tasks) : WorkerStart(k)
    \/ \E k \in 1..Len(tasks) : WorkerReturn(k)
    \/ \E k \in 1..Len(tasks) : WorkerRaise(k)
    \/ GetResult
    \/ SaveFile
    \/ Concatenate

Spec == Init /\ [][Next]_vars

\* C1: in process_file of every pipeline, a worker that raises does not crash the
\* pool: process_file returns, with an empty result for the record of that worker
\* and the own result of every other record.
C1_WorkerFailureIsolated ==
    /\ pc # "crashed"
    /\ \A k \in 1..Len(function_counts) :
          function_counts[k] = IF tasks[k].state = "failed" THEN [out |-> "empty"]
                               ELSE Worker(pipeline, code_chunks[k])

\* the identifiers of the rows of a per-file output
RowIds(rows) ==
    {rows[k].chunk_id : k \in {j \in 1..Len(rows) : "chunk_id" \in DOMAIN rows[j]}}

\* the identifiers found in the outputs of two different dump files
DuplicateIds ==
    UNION {RowIds(parquet_files[p[1]].rows) \cap RowIds(parquet_files[p[2]].rows) :
              p \in {q \in (1..Len(parquet_files)) \X (1..Len(parquet_files)) : q[1] # q[2]}}

\* C2: when one snippet identifier is in the per-file results of two dump files,
\* concatenate_parquet_files detects and reports it: it does not save a final table
\* as if nothing were wrong, with both rows or with one of them.
C2_DuplicatesReported ==
    (pc = "done" /\ DuplicateIds # {}) => final_table.out # "saved"

\* the matches of ",false,\d+ in the text process_file splits
NumBoundaries(content) ==
    Cardinality({j \in 1..Len(content) :
        BoundaryEndAt(SubSeq(Replace(content, <<"NUL">>, <<>>), SkippedChars + 1,
                             Len(Replace(content, <<"NUL">>, <<>>))), j) > 0})

\* C22: for every size of the pool and every order in which the workers end,
\* process_file returns one result for each record of the split (the number of
\* boundary matches plus one), the i-th entry being the result of the i-th record.
C22_ResultsInRecordOrder ==
    /\ \A k \in 1..Len(function_counts) :
          function_counts[k] = Worker(pipeline, code_chunks[k])
    /\ (pc = "pool" /\ Len(function_counts) = Len(tasks))
          => Len(function_counts) = NumBoundaries(text_files[file_index].content) + 1

C22_Witness ==
    /\ pc = "pool"
    /\ Len(function_counts) = Len(tasks)
    /\ Len(tasks) = 3
    /\ finished = <<2, 3, 1>>
    /\ function_counts[1].out = "record"
    /\ function_counts[2].out = "record"
    /\ function_counts[1] # function_counts[2]

\* the rows with a chunk identifier that the results of the dump file text_file make
RowsOfFile(module, text_file) ==
    SelectSeq(RowsOf(module, [k \in 1..Len(SplitRecords(text_file.content)) |->
                                 Worker(module, SplitRecords(text_file.content)[k])]),
              LAMBDA row : "chunk_id" \in DOMAIN row)

\* C23: the per-file output of a dump file is never overwritten by the output of
\* another dump file of the run, the names of the outputs of different files being
\* different, and the final table holds the rows of every file processed.
C23_EveryFileContributes ==
    /\ \A f \in 1..(file_index - 1), g \in 1..(file_index - 1) :
          f # g => OutputFilename(pipeline, text_files[f].name)
                     # OutputFilename(pipeline, text_files[g].name)
    /\ \A f \in 1..(file_index - 1) :
          \E o \in 1..Len(parquet_files) :
              /\ parquet_files[o].name = OutputFilename(pipeline, text_files[f].name)
              /\ Range(RowsOfFile(pipeline, text_files[f])) \subseteq Range(parquet_files[o].rows)
    /\ (pc = "done" /\ final_table.out = "saved")
          => \A f \in 1..Len(text_files) :
                Range(RowsOfFile(pipeline, text_files[f])) \subseteq Range(final_table.rows)

\* the files before the f-th have their output in the directory
SavedBefore(f) ==
    \A g \in 1..(f - 1) :
        \E o \in 1..Len(parquet_files) :
            parquet_files[o].name = OutputFilename(pipeline, text_files[g].name)

\* C24: the dump files are processed one after another: while the records of a file
\* are with the pool, they are the records of that file alone and every file before
\* it is saved; when main is between files, every task has returned, process_file
\* has every result and the file is saved; concatenate_parquet_files runs after the
\* last file is saved.
C24_FilesOneAfterAnother ==
    /\ pc = "pool"
          => /\ file_index <= Len(text_files)
             /\ code_chunks = SplitRecords(text_files[file_index].content)
             /\ Len(tasks) = Len(code_chunks)
             /\ SavedBefore(file_index)
    /\ pc \in {"main", "done"}
          => /\ \A k \in 1..Len(tasks) : tasks[k].state = "done"
             /\ Len(function_counts) = Len(tasks)
             /\ SavedBefore(file_index)
    /\ final_table.out # "none"
          => /\ pc = "done"
             /\ file_index = Len(text_files) + 1
             /\ SavedBefore(file_index)

C24_Witness ==
    /\ pc = "pool"
    /\ file_index = 2
    /\ \E k \in 1..Len(tasks) : tasks[k].state = "running"
    /\ Len(parquet_files) = 1
    /\ Len(parquet_files[1].rows) = 3

\* C17: a record without the header pattern gives no output, in each pipeline: its
\* worker returns without cleaning, parsing or counting anything, the results
\* process_file collects gain no entry for it, and the per-file output has no row
\* for it: every entry and every row carries a chunk identifier.
C17_HeaderlessNoOutput ==
    /\ \A k \in 1..Len(tasks) :
          (tasks[k].state = "done" /\ ~HasHeader(code_chunks[k]))
              => tasks[k].result = [out |-> "empty"]
    /\ \A k \in 1..Len(function_counts) : HasHeader(code_chunks[k])
    /\ \A f \in 1..Len(parquet_files) :
          \A r \in 1..Len(parquet_files[f].rows) : "chunk_id" \in DOMAIN parquet_files[f].rows[r]

\* C18: in every run of main, records are submitted to a pool only when the
\* library dictionary has been loaded (in the library pipeline) and every input
\* file of the run can be read: a file or a dictionary that cannot be read ends the
\* run before any worker is started.
C18_AbortBeforeWorkers ==
    tasks # <<>>
        => /\ \A k \in 1..Len(text_files) : text_files[k].readable
           /\ pipeline = "std_library_parser" => dictionary_loaded

(***************************************************************************)
(* The normalizer on its own: cleanup_extracted_code and                   *)
(* remove_merge_conflicts over texts made of marker lines, code lines and  *)
(* empty lines, and the structural process_chunk on the records of these   *)
(* texts.                                                                  *)
(***************************************************************************)
\* the line of common ancestors of a conflict in diff3 style
ConflictAncestors == <<"|","|","|","|","|","|","|">>

\* the lines the texts are made of
LineAlphabet ==
    {ConflictStart \o <<" ","H","E","A","D">>, ConflictAncestors \o <<" ","b","a","s","e">>, ConflictMiddle, ConflictEnd \o <<" ","b">>,
     <<"x"," ","="," ","f","(",")">>, <<>>}

\* the lines of a text, at most
MaxLines == 3

LineSeqs == UNION {[1..n -> LineAlphabet] : n \in 0..MaxLines}

\* every text of at most MaxLines lines, with and without a newline at its end
ConflictTexts ==
    {Join(ls, <<"\n">>) \o tail : ls \in LineSeqs, tail \in {<<>>, <<"\n">>}}

\* the variants of a conflict block: no line, one line, two lines
Variants == {<<>>, <<<<"x"," ","="," ","1">>>>, <<<<"x"," ","="," ","1">>, <<"y",".","z"," ","="," ","g","(",")">>>>}

\* a well-formed conflict block in diff3 style
ConflictBlock(first, ancestors, second) ==
    Join(<<ConflictStart \o <<" ","H","E","A","D">>>> \o first \o <<ConflictAncestors \o <<" ","b","a","s","e">>>> \o ancestors
         \o <<ConflictMiddle>> \o second \o <<ConflictEnd \o <<" ","b">>>>, <<"\n">>)

ConflictBlocks == {ConflictBlock(f, a, b) : f \in Variants, a \in Variants, b \in Variants}

\* texts with doubled quotes, a conflict, a notebook cell
QuotedTexts ==
    {<<"s"," ","="," ","f","(","\"","\"","a","\"","\"",")">>,
     <<"a"," ","="," ","1","\n","<","<","<","<","<","<","<"," ","H","E","A","D","\n","b"," ","="," ","f","(",")","\n","=","=","=","=","=","=","=","\n","c"," ","="," ","d",".","e","\n",">",">",">",">",">",">",">"," ","b","\n">>,
     <<"{","\"","\"","c","e","l","l","s","\"","\"",":"," ","[","{","\"","\"","c","e","l","l","_","t","y","p","e","\"","\"",":"," ","\"","\"","c","o","d","e","\"","\"",","," ","\"","\"","s","o","u","r","c","e","\"","\"",":"," ","[","\"","\"","x"," ","="," ","f","(",")","\"","\"","]","}","]","}">>}

\* json.dumps of a string without quotes or backslashes
DumpsStr(s) ==
    <<"\"">> \o Flatten([k \in 1..Len(s) |-> IF s[k] = "\n" THEN <<"\\", "n">> ELSE <<s[k]>>])
        \o <<"\"">>

\* json.dumps of a cell: its source as the list of its lines, or as one string
DumpsCell(cell) ==
    <<"{","\"","c","e","l","l","_","t","y","p","e","\"",":"," ">> \o DumpsStr(cell.cell_type)
        \o <<","," ","\"","s","o","u","r","c","e","\"",":"," ">>
        \o (IF cell.as_list
            THEN <<"[">> \o Join([k \in 1..Len(cell.lines) |-> DumpsStr(cell.lines[k])],
                                 <<",", " ">>) \o <<"]">>
            ELSE DumpsStr(Flatten(cell.lines)))
        \o <<"}">>

\* json.dumps of a notebook of these cells
DumpsNotebook(cells) ==
    <<"{","\"","c","e","l","l","s","\"",":"," ","[">> \o Join([k \in 1..Len(cells) |-> DumpsCell(cells[k])], <<",", " ">>)
        \o <<"]", "}">>

\* the cells of the notebooks: a code cell of three lines, one of them a magic; a
\* code cell without lines; a code cell of one empty line; a markdown cell; a code
\* cell whose source is one string
NotebookCells ==
    {[cell_type |-> <<"c","o","d","e">>, as_list |-> TRUE,
      lines |-> <<<<"x"," ","="," ","f","(",")">> \o <<"\n">>, <<"%","t","i","m","e">> \o <<"\n">>, <<"y",".","z">>>>],
     [cell_type |-> <<"c","o","d","e">>, as_list |-> TRUE, lines |-> <<>>],
     [cell_type |-> <<"c","o","d","e">>, as_list |-> TRUE, lines |-> <<<<>>>>],
     [cell_type |-> <<"m","a","r","k","d","o","w","n">>, as_list |-> TRUE, lines |-> <<<<"h","i">>>>],
     [cell_type |-> <<"c","o","d","e">>, as_list |-> FALSE, lines |-> <<<<"z"," ","="," ","a"," ","%"," ","b">>>>]}

\* the cells of a notebook, at most
MaxCells == 2

Notebooks == UNION {[1..n -> NotebookCells] : n \in 1..MaxCells}

\* the body of the record of a notebook: in the dump every quote is doubled
NotebookBody(cells) == Replace(DumpsNotebook(cells), <<"\"">>, <<"\"", "\"">>)

\* each notebook with the body of its record
NotebookRecords == {[cells |-> cells, body |-> NotebookBody(cells)] : cells \in Notebooks}

NotebookBodies == {notebook.body : notebook \in NotebookRecords}

\* notebooks that are not well-formed, each after a code cell that is: a text cut
\* inside a string; the cells under "worksheets" and no "cells"; a cell without
\* "cell_type"; a code cell without "source"; a markdown cell without "source"
MalformedNotebooks ==
    {[fault |-> "invalid JSON",
      text |->
          <<"{","\"","c","e","l","l","s","\"",":"," ","[","{","\"","c","e","l","l","_",
          "t","y","p","e","\"",":"," ","\"","c","o","d","e","\"",","," ","\"","s","o","u",
          "r","c","e","\"",":"," ","[","\"","x"," ","="," ","f","(",")","\"","]","}",",",
          " ","{","\"","c","e","l","l","_","t","y","p","e","\"",":"," ","\"","c","o","d",
          "e","\"",","," ","\"","s","o","u","r","c","e","\"",":"," ","[","\"","y",".",
          "z">>],
     [fault |-> "no cells",
      text |->
          <<"{","\"","w","o","r","k","s","h","e","e","t","s","\"",":"," ","[","{","\"",
          "c","e","l","l","s","\"",":"," ","[","{","\"","c","e","l","l","_","t","y","p",
          "e","\"",":"," ","\"","c","o","d","e","\"",","," ","\"","s","o","u","r","c","e",
          "\"",":"," ","[","\"","x"," ","="," ","f","(",")","\"","]","}","]","}","]","}">>],
     [fault |-> "no cell_type",
      text |->
          <<"{","\"","c","e","l","l","s","\"",":"," ","[","{","\"","c","e","l","l","_",
          "t","y","p","e","\"",":"," ","\"","c","o","d","e","\"",","," ","\"","s","o","u",
          "r","c","e","\"",":"," ","[","\"","x"," ","="," ","f","(",")","\"","]","}",",",
          " ","{","\"","s","o","u","r","c","e","\"",":"," ","[","\"","y",".","z","\"","]",
          "}","]","}">>],
     [fault |-> "code cell without source",
      text |->
          <<"{","\"","c","e","l","l","s","\"",":"," ","[","{","\"","c","e","l","l","_",
          "t","y","p","e","\"",":"," ","\"","c","o","d","e","\"",","," ","\"","s","o","u",
          "r","c","e","\"",":"," ","[","\"","x"," ","="," ","f","(",")","\"","]","}",",",
          " ","{","\"","c","e","l","l","_","t","y","p","e","\"",":"," ","\"","c","o","d",
          "e","\"",","," ","\"","i","n","p","u","t","\"",":"," ","[","\"","y",".","z",
          "\"","]","}","]","}">>],
     [fault |-> "markdown cell without source",
      text |->
          <<"{","\"","c","e","l","l","s","\"",":"," ","[","{","\"","c","e","l","l","_",
          "t","y","p","e","\"",":"," ","\"","c","o","d","e","\"",","," ","\"","s","o","u",
          "r","c","e","\"",":"," ","[","\"","x"," ","="," ","f","(",")","\"","]","}",",",
          " ","{","\"","c","e","l","l","_","t","y","p","e","\"",":"," ","\"","m","a","r",
          "k","d","o","w","n","\"","}","]","}">>]}

\* each of them with the body of its record
MalformedRecords ==
    {[fault |-> notebook.fault, body |-> Replace(notebook.text, <<"\"">>, <<"\"", "\"">>)] :
        notebook \in MalformedNotebooks}

MalformedBodies == {notebook.body : notebook \in MalformedRecords}

InitText ==
    /\ \/ text_id = HeaderId
          /\ text_in \in ConflictTexts \cup ConflictBlocks \cup QuotedTexts \cup NotebookBodies
                        \cup MalformedBodies
       \/ text_id \in OmittedIds /\ text_in \in ConflictBlocks \cup QuotedTexts \cup {<<>>}
    /\ text_step = "none"
    /\ text_out = <<>>
    /\ text_again = <<>>
    /\ text_record = [out |-> "pending"]
    /\ IdleTree
    /\ IdleChunk
    /\ IdleLib
    /\ IdleRun

\* cleanup_extracted_code(extracted_code, chunk_id)
CleanupExtractedCode ==
    /\ text_step = "none"
    /\ text_out' = cleanup_extracted_code(text_in, text_id)
    /\ text_step' = "cleanup_extracted_code"
    /\ UNCHANGED <<text_id, text_in, text_again, text_record, exceptText>>

\* remove_merge_conflicts(code)
RemoveMergeConflicts ==
    /\ text_step = "none"
    /\ text_out' = remove_merge_conflicts(text_in)
    /\ text_step' = "remove_merge_conflicts"
    /\ UNCHANGED <<text_id, text_in, text_again, text_record, exceptText>>

\* remove_merge_conflicts on what remove_merge_conflicts returned
RemoveMergeConflictsAgain ==
    /\ text_step = "remove_merge_conflicts"
    /\ text_again' = remove_merge_conflicts(text_out)
    /\ text_step' = "remove_merge_conflicts twice"
    /\ UNCHANGED <<text_id, text_in, text_out, text_record, exceptText>>

\* metadata_parser.process_chunk on the record <text_id>,0,"<text_in>
ProcessTextRecord ==
    /\ text_step = "none"
    /\ text_record' = metadata_process_chunk(text_id \o <<",","0",",","\"">> \o text_in, "none")
    /\ text_out' = ChunkText(text_id \o <<",","0",",","\"">> \o text_in).cleaned_code
    /\ text_step' = "process_chunk"
    /\ UNCHANGED <<text_id, text_in, text_again, exceptText>>

NextText ==
    \/ CleanupExtractedCode
    \/ RemoveMergeConflicts
    \/ RemoveMergeConflictsAgain
    \/ ProcessTextRecord

SpecText == InitText /\ [][NextText]_vars

\* no line of text begins with <<<<<<<, ======= or >>>>>>>
NoMarkerLine(text) ==
    \A k \in 1..Len(SplitLines(text)) :
        /\ ~StartsWithAt(SplitLines(text)[k], 1, ConflictStart)
        /\ ~StartsWithAt(SplitLines(text)[k], 1, ConflictMiddle)
        /\ ~StartsWithAt(SplitLines(text)[k], 1, ConflictEnd)

C15_RemoveIdempotent ==
    text_step = "remove_merge_conflicts twice" => text_again = text_out

\* C16: of a well-formed conflict block in diff3 style (start marker, first variant,
\* ancestors marker, ancestors, middle marker, second variant, end marker)
\* remove_merge_conflicts returns the lines of the second variant, in order, and
\* nothing else.
C16_SecondVariantKept ==
    text_step = "remove_merge_conflicts"
        => \A first \in Variants, ancestors \in Variants, second \in Variants :
              text_in = ConflictBlock(first, ancestors, second)
                  => text_out = Join(second, <<"\n">>)

C16_Witness ==
    /\ text_step = "remove_merge_conflicts"
    /\ text_in = ConflictBlock(<<<<"x"," ","="," ","1">>>>, <<<<"x"," ","="," ","1">>, <<"y",".","z"," ","="," ","g","(",")">>>>, <<<<"x"," ","="," ","1">>, <<"y",".","z"," ","="," ","g","(",")">>>>)
    /\ text_out = <<"x"," ","="," ","1","\n","y",".","z"," ","="," ","g","(",")">>


RECURSIVE OutsideLines(_, _, _)
\* the lines of code_lines from the k-th on that lie outside every conflict block, a
\* block running from a line that starts with <<<<<<< to the next line that starts
\* with >>>>>>> (or to the end of the text)
OutsideLines(code_lines, k, in_block) ==
    IF k > Len(code_lines) THEN <<>>
    ELSE IF in_block
    THEN OutsideLines(code_lines, k + 1, ~StartsWithAt(code_lines[k], 1, ConflictEnd))
    ELSE IF StartsWithAt(code_lines[k], 1, ConflictStart)
    THEN OutsideLines(code_lines, k + 1, TRUE)
    ELSE <<code_lines[k]>> \o OutsideLines(code_lines, k + 1, FALSE)

RECURSIVE IsSubsequence(_, _)
\* the elements of a are found in b, in the order of a
IsSubsequence(a, b) ==
    IF a = <<>> THEN TRUE
    ELSE IF b = <<>> THEN FALSE
    ELSE IF Head(a) = Head(b) THEN IsSubsequence(Tail(a), Tail(b))
    ELSE IsSubsequence(a, Tail(b))

\* C21: every line of the input of remove_merge_conflicts that lies outside the
\* conflict blocks is in the output, unchanged and in its original order, whatever
\* it holds; a text with no line starting with <<<<<<< is returned unchanged.
C21_OutsideLinesUnchanged ==
    text_step = "remove_merge_conflicts"
        => /\ IsSubsequence(OutsideLines(SplitLines(text_in), 1, FALSE), SplitLines(text_out))
           /\ (\A k \in 1..Len(SplitLines(text_in)) :
                   ~StartsWithAt(SplitLines(text_in)[k], 1, ConflictStart))
                => text_out = text_in

\* the same for the texts in which every line starting with ======= or >>>>>>>
\* belongs to a block, lines compared rather than the text
OutsideLinesOfBlocksKept ==
    (text_step = "remove_merge_conflicts" /\ text_in \in ConflictBlocks \cup QuotedTexts)
        => IsSubsequence(OutsideLines(SplitLines(text_in), 1, FALSE), SplitLines(text_out))
\* the text the cells of a notebook are to give: for each code cell its lines but
\* those that begin with %, and one line end
CellsText(cells) ==
    Flatten([k \in 1..Len(cells) |->
        IF cells[k].cell_type # <<"c","o","d","e">> THEN <<>>
        ELSE Flatten(SelectSeq(cells[k].lines, LAMBDA line : line = <<>> \/ line[1] # "%"))
                 \o <<"\n">>])

\* the cleaned text of the record process_chunk ran on holds a cell marker
HasCellMarker ==
    \E j \in 1..Len(cleanup_extracted_code(text_in, text_id)) :
        \/ StartsWithAt(cleanup_extracted_code(text_in, text_id), j, CellTypeCode)
        \/ StartsWithAt(cleanup_extracted_code(text_in, text_id), j, CellTypeMarkdown)

\* C25: a snippet is classified as a notebook exactly when its cleaned text holds
\* "cell_type": "code" or "cell_type": "markdown"; of a well-formed notebook
\* parse_notebook returns, over the code cells in document order, the lines of
\* each cell but those that begin with %, then one line end for each code cell,
\* and nothing for the other cells.
C25_NotebookCells ==
    (text_step = "process_chunk" /\ text_record.out = "record")
        => /\ text_record.is_ipynb = HasCellMarker
           /\ \A notebook \in NotebookRecords :
                 (text_id = HeaderId /\ text_in = notebook.body)
                     => /\ text_record.is_ipynb
                        /\ text_out = CellsText(notebook.cells)

\* the same for the notebooks whose code cells hold a list of lines other than the
\* list of one empty line
ListCellsText ==
    (text_step = "process_chunk" /\ text_record.out = "record" /\ text_id = HeaderId)
        => \A notebook \in NotebookRecords :
              (/\ text_in = notebook.body
               /\ \A k \in 1..Len(notebook.cells) :
                     notebook.cells[k].as_list /\ notebook.cells[k].lines # <<<<>>>>)
                  => text_out = CellsText(notebook.cells)

\* C26: of a snippet classified as a notebook that is not a well-formed document
\* (invalid JSON, no "cells", a cell without "cell_type" or without "source")
\* parse_notebook returns the empty text, the cells before the fault included, and
\* the structural process_chunk returns the CountRecord of the record with calls,
\* assignments and attributes 0, size 0 and the notebook flag true.
C26_MalformedNotebookEmpty ==
    (text_step = "process_chunk" /\ text_id = HeaderId /\ text_in \in MalformedBodies)
        => /\ text_out = <<>>
           /\ text_record = [out |-> "record", chunk_id |-> HeaderId, calls |-> 0,
                             assignments |-> 0, attributes |-> 0, size |-> 0,
                             is_ipynb |-> TRUE]

\* the same for the faults that raise in parse_notebook
RaisingNotebookEmpty ==
    (text_step = "process_chunk" /\ text_id = HeaderId)
        => \A notebook \in MalformedRecords :
              (text_in = notebook.body /\ notebook.fault # "markdown cell without source")
                  => /\ text_out = <<>>
                     /\ text_record = [out |-> "record", chunk_id |-> HeaderId, calls |-> 0,
                                       assignments |-> 0, attributes |-> 0, size |-> 0,
                                       is_ipynb |-> TRUE]

=============================================================================
